---- MODULE Spec2Model ----
(***************************************************************************)
(* Verification model of hornta/job-seeker.                                *)
(*                                                                         *)
(*   SpecRetry  : one call of withRetry (src/utils/withRetry.ts), stepped  *)
(*                at every call it makes and at every await.               *)
(*   SpecScrape : repeated runs of scrapeJobsTask, each running            *)
(*                scrapeJobPage for the selected postings against the      *)
(*                persisted tables (posting, detail, history, company).    *)
(*   SpecChecksum : two calls of createChecksum on structured values.      *)
(*   SpecBackoff : one call of a backoff strategy, bare or decorated by    *)
(*                withRandomness.                                          *)
(*   SpecScraperRetry : the withRetry calls of getHtml and of              *)
(*                getJsonDataFromJobData.                                  *)
(*   SpecCron   : the scrapeLinkedInJobsJob cron and the runs of           *)
(*                scrapeJobsTask it starts.                                *)
(*   SpecUrn    : one call of extractJobIdFromUrn.                         *)
(*   SpecSearch : one call of scrapeJobsPage, page by page.                *)
(*   SpecSweep  : repeated runs of scrapeJobsTask over more postings than  *)
(*                one run takes, scrapeJobPage reduced to what it does to  *)
(*                the posting table.                                       *)
(***************************************************************************)
EXTENDS Integers, Sequences, FiniteSets, TLC

VARIABLES
    \* ---- withRetry ----
    opts,          \* the merged options of the call (withRetry.ts:51)
    attempt,       \* let attempt (withRetry.ts:53)
    pc,            \* position of the async function
    caught,        \* the value bound by catch (error)
    retryResult,   \* const retryResult (withRetry.ts:64)
    delay,         \* const delay (withRetry.ts:70)
    pending,       \* the settlement of the promise being awaited
    result,        \* how the promise returned by withRetry settled
    trace,         \* history: every call made by withRetry, in order
    clock,         \* time spent suspended in sleep()
    \* ---- scrapeJobsTask / scrapeJobPage ----
    env,           \* ENV (env.ts)
    db,            \* committed rows of the four tables
    tx,            \* working copy of the running transaction
    now,           \* Date.now(), in hours
    scrapes,       \* number of scrapeJobPage calls started
    task,          \* scrapeJobsTask: its position and remaining postings
    job,           \* scrapeJobPage: its position and local constants
    pre,           \* history: the committed rows when the scrape began
    log,           \* history: what the running scrape has done
    \* ---- createChecksum ----
    ckIn,          \* the arguments of two calls of createChecksum
    ckOut,         \* what each call returned or threw
    \* ---- backoff strategies ----
    boIn,          \* the strategy called and its arguments
    boOut,         \* the delay it returned
    \* ---- scrapeLinkedInJobsJob ----
    cron,          \* the Cron object: paused, busy, timer fires so far
    runs,          \* the calls of scrapeJobsTask it has made, in order
    \* ---- extractJobIdFromUrn ----
    urnIn,         \* the argument of the call
    urnOut,        \* what the call returned
    \* ---- scrapeJobsPage ----
    search,        \* its position, let start, and the page just fetched
    \* ---- scrapeJobsTask over many postings ----
    board,         \* the JobPosting table: lastScrapedAt and isDeleted
    site,          \* how the site answers for each posting
    sweep          \* scrapeJobsTask: its position, the clock, the postings
                   \* it selected, those left and those it has scraped

retryVars  == <<opts, attempt, pc, caught, retryResult, delay, pending,
                result, trace, clock>>
scrapeVars == <<env, db, tx, now, scrapes, task, job, pre, log>>
checksumVars == <<ckIn, ckOut>>
backoffVars == <<boIn, boOut>>
cronVars   == <<cron, runs>>
urnVars    == <<urnIn, urnOut>>
searchVars == <<search>>
sweepVars  == <<board, site, sweep>>
vars       == <<retryVars, scrapeVars, checksumVars, backoffVars, cronVars,
                urnVars, searchVars, sweepVars>>

----------------------------------------------------------------------------
(* Bounds of the model.                                                    *)

MaxAttemptsBound == 3

\* Postings known to the database.
NumPostings == 2

\* Calls of scrapeJobPage, over all runs of scrapeJobsTask.
MaxScrapes == 3

\* The clock stops here (hours).
MaxNow == 25

\* Longest array handed to createChecksum.
MaxArrayLen == 2

\* Attempt numbers handed to a backoff strategy run from -MaxBackoffAttempt
\* to MaxBackoffAttempt.
MaxBackoffAttempt == 6

\* Math.random() and randomnessFactor are counted in 1/Grain.
Grain == 4

\* Fires of the timer of scrapeLinkedInJobsJob.
MaxTicks == 4

\* Runs of scrapeJobsTask the cron starts.
MaxRuns == 3

\* Colon-separated parts of the strings handed to extractJobIdFromUrn.
MaxUrnParts == 5

\* Postings in the table when one run cannot take them all.
SweepPostings == 11

----------------------------------------------------------------------------
(* Values.                                                                 *)

ABORT_RETRY == "Symbol(AbortRetry)"

\* What an operation can resolve with.
Values == {"v1", "v2"}

\* The message of the error getJsonDataFromJobData throws for an answer
\* that fails JobExtractionSchema.
MalformedOutput == "Failed to parse job extraction data"

\* What an operation can throw besides ABORT_RETRY.
Errors == {"e1", MalformedOutput}

\* What a throwing hook throws.
HookError == "hookError"

UnreachableError == "Error(Unreachable code)"

\* retryResult.delay is absent (undefined).
NoDelay == -1

\* The delays a retryCondition may supply: 0 is a delay, and 7000 is above
\* every maxDelay of the model.
ConditionDelays == {0, 7000}

Min(a, b) == IF a <= b THEN a ELSE b

RECURSIVE Pow2(_)
Pow2(n) == IF n <= 0 THEN 1 ELSE 2 * Pow2(n - 1)

----------------------------------------------------------------------------
(* Backoff strategies.                                                     *)

\* The result is not clamped.
linearBackoff_NoClamp(initialDelay, att, maxDelay) == initialDelay * att

linearBackoff(initialDelay, att, maxDelay) ==
    Min(initialDelay * att, maxDelay)

\* x * 2 ** e.  A negative e divides; the strategies are called where the
\* quotient is a whole number, as it is exact in a double.
TimesPow2(x, e) == IF e >= 0 THEN x * Pow2(e) ELSE x \div Pow2(-e)

\* The multiplier is 1 for every attempt below 1.
exponentialBackoff_NoFraction(initialDelay, att, maxDelay) ==
    Min(initialDelay * Pow2(att - 1), maxDelay)

exponentialBackoff(initialDelay, att, maxDelay) ==
    Min(TimesPow2(initialDelay, att - 1), maxDelay)

fixedBackoff(initialDelay) == initialDelay

BackoffNames == {"exponentialBackoff", "linearBackoff", "fixedBackoff"}

\* Calling the function held by options.backoff.
ApplyBackoff(name, initialDelay, att, maxDelay) ==
    CASE name = "linearBackoff"      -> linearBackoff(initialDelay, att, maxDelay)
      [] name = "exponentialBackoff" -> exponentialBackoff(initialDelay, att, maxDelay)
      [] name = "fixedBackoff"       -> fixedBackoff(initialDelay)

\* A BackoffFunction value: one of the three strategies, or a caller's own
\* function, which returns a value of its choice (vi.fn().mockReturnValue).
Strategy(name) == [name |-> name, returns |-> 0]
Custom(value)  == [name |-> "custom", returns |-> value]

\* backoff(initialDelay, attempt, maxDelay)
CallStrategy(backoff, initialDelay, att, maxDelay) ==
    IF backoff.name = "custom" THEN backoff.returns
    ELSE ApplyBackoff(backoff.name, initialDelay, att, maxDelay)

\* 1 + (Math.random() - 0.5) * 2 * randomnessFactor, in 1/Grain^2, for a
\* sample and a factor in 1/Grain.
RandomFactor(random, randomnessFactor) ==
    Grain * Grain + (2 * random - Grain) * randomnessFactor

\* The result is not clamped again.
withRandomness_NoClamp(backoff, randomnessFactor, random, initialDelay, att, maxDelay) ==
    (CallStrategy(backoff, initialDelay, att, maxDelay)
        * RandomFactor(random, randomnessFactor)) \div (Grain * Grain)

\* The deviation is up to twice randomnessFactor.
withRandomness_WideJitter(backoff, randomnessFactor, random, initialDelay, att, maxDelay) ==
    Min((CallStrategy(backoff, initialDelay, att, maxDelay)
            * (Grain * Grain + 2 * (2 * random - Grain) * randomnessFactor))
                \div (Grain * Grain), maxDelay)

\* The jitter is applied even when randomnessFactor is 0.
withRandomness_AlwaysJitter(backoff, randomnessFactor, random, initialDelay, att, maxDelay) ==
    Min((CallStrategy(backoff, initialDelay, att, maxDelay)
            * RandomFactor(random, Grain)) \div (Grain * Grain), maxDelay)

\* The function withRandomness(backoff, randomnessFactor) returns, called
\* with (initialDelay, attempt, maxDelay) when Math.random() gives random.
withRandomness(backoff, randomnessFactor, random, initialDelay, att, maxDelay) ==
    LET baseDelay    == CallStrategy(backoff, initialDelay, att, maxDelay)
        randomFactor == RandomFactor(random, randomnessFactor)
    IN  Min((baseDelay * randomFactor) \div (Grain * Grain), maxDelay)

----------------------------------------------------------------------------
(* Options.                                                                *)

\* The hooks are named by who wrote them: "default" is the function of
\* defaultOptions, "custom" a function of the caller.
defaultOptions ==
    [maxAttempts    |-> 3,
     initialDelay   |-> 1000,
     maxDelay       |-> 5000,
     backoff        |-> "exponentialBackoff",
     retryCondition |-> "default",
     onRetry        |-> "default"]

\* { ...defaultOptions, ...options }
MergeOptions(options) ==
    [f \in DOMAIN defaultOptions |->
        IF f \in DOMAIN options THEN options[f] ELSE defaultOptions[f]]

OptionFields == DOMAIN defaultOptions

\* The Partial<WithRetryOptions> values a caller passes: none of the
\* fields, maxAttempts alone, maxAttempts and the hooks, or all of them;
\* maxAttempts down to 0.
FullOptions ==
    [maxAttempts    : 0..MaxAttemptsBound,
     initialDelay   : {2000},
     maxDelay       : {3000},
     backoff        : BackoffNames,
     retryCondition : {"custom"},
     onRetry        : {"custom"}]

CallerOptions ==
    { [f \in S |-> o[f]] :
        o \in FullOptions,
        S \in {{}, {"maxAttempts"},
               {"maxAttempts", "retryCondition", "onRetry"}, OptionFields} }

----------------------------------------------------------------------------
(* withRetry (src/utils/withRetry.ts:39-81).                               *)

\* One entry of the history of calls.
Ev(ev, att, val, d, ans) ==
    [ev |-> ev, attempt |-> att, val |-> val, delay |-> d, ans |-> ans]

\* What operation() can do: return or resolve with a value, throw or
\* reject with an error or with ABORT_RETRY; synchronously or not.
OpOutcomes ==
    [kind : {"return"}, val : Values, sync : BOOLEAN]
        \cup [kind : {"throw"}, val : Errors \cup {ABORT_RETRY}, sync : BOOLEAN]

\* What a retryCondition of the caller can answer.
RetryConditionResults ==
    [retry : BOOLEAN, delay : {NoDelay} \cup ConditionDelays]

\* Every error is retried.
RetryAnswers_AlwaysRetry(hook, error) ==
    IF hook \in {"default", "malformedOnly"}
       THEN {[retry |-> TRUE, delay |-> NoDelay]}
       ELSE RetryConditionResults

\* What the retryCondition in use can answer to an error: the default one
\* answers { retry: true }, the one of getJsonDataFromJobData
\* { retry: shouldRetry }.
RetryAnswers(hook, error) ==
    CASE hook = "default" -> {[retry |-> TRUE, delay |-> NoDelay]}
      [] hook = "malformedOnly" ->
            {[retry |-> error = MalformedOutput, delay |-> NoDelay]}
      [] OTHER -> RetryConditionResults

NoResult   == [kind |-> "pending", val |-> ""]
NoPending  == [kind |-> "none", val |-> "", sync |-> TRUE]
NoRetryRes == [retry |-> FALSE, delay |-> NoDelay]

\* The value of the operation is dropped.
Resolved_Undefined(v) == [kind |-> "resolved", val |-> "undefined"]

\* return result; (withRetry.ts:58)
Resolved(v) == [kind |-> "resolved", val |-> v]

\* The error is wrapped before it is thrown.
Rejected_Wrapped(e) == [kind |-> "rejected", val |-> "Error(retry failed)"]

\* throw error; (withRetry.ts:61, 67)
Rejected(e) == [kind |-> "rejected", val |-> e]

RetryInit ==
    /\ \E options \in CallerOptions : opts = MergeOptions(options)
    /\ attempt = 1
    /\ pc = "while"
    /\ caught = ""
    /\ retryResult = NoRetryRes
    /\ delay = NoDelay
    /\ pending = NoPending
    /\ result = NoResult
    /\ trace = <<>>
    /\ clock = 0

\* No call of withRetry in progress.
RetryIdle ==
    /\ opts = defaultOptions
    /\ attempt = 1
    /\ pc = "idle"
    /\ caught = ""
    /\ retryResult = NoRetryRes
    /\ delay = NoDelay
    /\ pending = NoPending
    /\ result = NoResult
    /\ trace = <<>>
    /\ clock = 0

\* The loop stops one attempt early.
LoopCondition_Strict == attempt < opts.maxAttempts

\* The loop condition of the model: withRetry.ts:55.
LoopCondition == attempt <= opts.maxAttempts

\* while (attempt <= maxAttempts), and the throw after the loop.
LoopTest ==
    /\ pc = "while"
    /\ IF LoopCondition
          THEN /\ pc' = "try"
               /\ result' = result
          ELSE /\ pc' = "done"
               /\ result' = Rejected(UnreachableError)
    /\ UNCHANGED <<opts, attempt, caught, retryResult, delay, pending,
                   trace, clock>>
    /\ UNCHANGED <<scrapeVars, checksumVars, backoffVars, cronVars,
                   urnVars, searchVars, sweepVars>>

\* operation() is called.  A synchronous throw lands in the catch block at
\* once; anything else is a promise that withRetry awaits.
InvokeOperation ==
    /\ pc = "try"
    /\ \E o \in OpOutcomes :
          IF o.kind = "throw" /\ o.sync
             THEN /\ trace' = trace \o
                        <<Ev("operation", attempt, "", NoDelay, "called"),
                          Ev("operationSettled", attempt, o.val, NoDelay, "threw")>>
                  /\ caught' = o.val
                  /\ pending' = NoPending
                  /\ pc' = "catch"
             ELSE /\ trace' = Append(trace,
                          Ev("operation", attempt, "", NoDelay, "called"))
                  /\ caught' = caught
                  /\ pending' = o
                  /\ pc' = "awaitOperation"
    /\ UNCHANGED <<opts, attempt, retryResult, delay, result, clock>>
    /\ UNCHANGED <<scrapeVars, checksumVars, backoffVars, cronVars,
                   urnVars, searchVars, sweepVars>>

\* await Promise.resolve(operation()) settles: return result, or catch.
SettleOperation ==
    /\ pc = "awaitOperation"
    /\ IF pending.kind = "return"
          THEN /\ trace' = Append(trace,
                     Ev("operationSettled", attempt, pending.val, NoDelay, "returned"))
               /\ result' = Resolved(pending.val)
               /\ caught' = caught
               /\ pc' = "done"
          ELSE /\ trace' = Append(trace,
                     Ev("operationSettled", attempt, pending.val, NoDelay, "threw"))
               /\ result' = result
               /\ caught' = pending.val
               /\ pc' = "catch"
    /\ pending' = NoPending
    /\ UNCHANGED <<opts, attempt, retryResult, delay, clock>>
    /\ UNCHANGED <<scrapeVars, checksumVars, backoffVars, cronVars,
                   urnVars, searchVars, sweepVars>>

\* The sentinel is compared by description, not by identity.
IsAbort_ByDescription(error) == error = "AbortRetry"

\* The test of withRetry.ts:60.
IsAbort(error) == error = ABORT_RETRY

\* if (error === ABORT_RETRY) throw error;
CatchAbort ==
    /\ pc = "catch"
    /\ IsAbort(caught)
    /\ result' = Rejected(caught)
    /\ pc' = "done"
    /\ UNCHANGED <<opts, attempt, caught, retryResult, delay, pending,
                   trace, clock>>
    /\ UNCHANGED <<scrapeVars, checksumVars, backoffVars, cronVars,
                   urnVars, searchVars, sweepVars>>

\* const retryResult = retryCondition(error); the hook answers or throws.
CallRetryCondition ==
    /\ pc = "catch"
    /\ ~IsAbort(caught)
    /\ \/ \E r \in RetryAnswers(opts.retryCondition, caught) :
             /\ retryResult' = r
             /\ trace' = Append(trace,
                   Ev("retryCondition", attempt, caught, r.delay,
                      IF r.retry THEN "retry" ELSE "stop"))
             /\ pc' = "decide"
             /\ result' = result
       \/ /\ opts.retryCondition = "custom"
          /\ retryResult' = retryResult
          /\ trace' = Append(trace,
                Ev("retryCondition", attempt, caught, NoDelay, "threw"))
          /\ pc' = "done"
          /\ result' = Rejected(HookError)
    /\ UNCHANGED <<opts, attempt, caught, delay, pending, clock>>
    /\ UNCHANGED <<scrapeVars, checksumVars, backoffVars, cronVars,
                   urnVars, searchVars, sweepVars>>

\* The last attempt is not recognised.
GivesUp_Late == ~retryResult.retry \/ attempt > opts.maxAttempts

\* The answer of retryCondition is ignored.
GivesUp_IgnoresCondition == attempt = opts.maxAttempts

\* The test of withRetry.ts:65.
GivesUp == ~retryResult.retry \/ attempt = opts.maxAttempts

\* onFailure(error, attempt); throw error;
Fail ==
    /\ pc = "decide"
    /\ GivesUp
    /\ trace' = Append(trace, Ev("onFailure", attempt, caught, NoDelay, "returned"))
    /\ result' = Rejected(caught)
    /\ pc' = "done"
    /\ UNCHANGED <<opts, attempt, caught, retryResult, delay, pending, clock>>
    /\ UNCHANGED <<scrapeVars, checksumVars, backoffVars, cronVars,
                   urnVars, searchVars, sweepVars>>

\* || in place of ??: a delay of 0 counts as absent.
HasDelay_Truthy(r) == r.delay # NoDelay /\ r.delay # 0

\* retryResult.delay ?? backoff(...): is the left operand present.
HasDelay(r) == r.delay # NoDelay

\* const delay = retryResult.delay ?? backoff(initialDelay, attempt, maxDelay);
ComputeDelay ==
    /\ pc = "decide"
    /\ ~GivesUp
    /\ IF HasDelay(retryResult)
          THEN /\ delay' = retryResult.delay
               /\ trace' = trace
          ELSE LET d == ApplyBackoff(opts.backoff, opts.initialDelay,
                                     attempt, opts.maxDelay)
               IN  /\ delay' = d
                   /\ trace' = Append(trace,
                         Ev("backoff", attempt, opts.backoff, d, "returned"))
    /\ pc' = "onRetry"
    /\ UNCHANGED <<opts, attempt, caught, retryResult, pending, result, clock>>
    /\ UNCHANGED <<scrapeVars, checksumVars, backoffVars, cronVars,
                   urnVars, searchVars, sweepVars>>

\* onRetry is called without await: a promise it returns is left pending.
CallOnRetry_NotAwaited ==
    /\ pc = "onRetry"
    /\ \/ /\ trace' = trace \o
                <<Ev("onRetry", attempt, caught, delay, "called"),
                  Ev("onRetrySettled", attempt, caught, delay, "returned")>>
          /\ pending' = pending
          /\ result' = result
          /\ pc' = "sleep"
       \/ \E k \in {"return", "throw"} :
             /\ trace' = Append(trace,
                   Ev("onRetry", attempt, caught, delay, "called"))
             /\ pending' = [kind |-> k, val |-> HookError, sync |-> FALSE]
             /\ result' = result
             /\ pc' = "sleep"
       \/ /\ trace' = trace \o
                <<Ev("onRetry", attempt, caught, delay, "called"),
                  Ev("onRetrySettled", attempt, caught, delay, "threw")>>
          /\ pending' = pending
          /\ result' = Rejected(HookError)
          /\ pc' = "done"
    /\ UNCHANGED <<opts, attempt, caught, retryResult, delay, clock>>
    /\ UNCHANGED <<scrapeVars, checksumVars, backoffVars, cronVars,
                   urnVars, searchVars, sweepVars>>

\* onRetry(error, attempt, delay) is called: it returns, returns a promise
\* that withRetry awaits, or throws.  The default one returns.
CallOnRetry ==
    /\ pc = "onRetry"
    /\ \/ /\ trace' = trace \o
                <<Ev("onRetry", attempt, caught, delay, "called"),
                  Ev("onRetrySettled", attempt, caught, delay, "returned")>>
          /\ pending' = pending
          /\ result' = result
          /\ pc' = "sleep"
       \/ \E k \in {"return", "throw"} :
             /\ opts.onRetry = "custom"
             /\ trace' = Append(trace,
                   Ev("onRetry", attempt, caught, delay, "called"))
             /\ pending' = [kind |-> k, val |-> HookError, sync |-> FALSE]
             /\ result' = result
             /\ pc' = "awaitOnRetry"
       \/ /\ opts.onRetry = "custom"
          /\ trace' = trace \o
                <<Ev("onRetry", attempt, caught, delay, "called"),
                  Ev("onRetrySettled", attempt, caught, delay, "threw")>>
          /\ pending' = pending
          /\ result' = Rejected(HookError)
          /\ pc' = "done"
    /\ UNCHANGED <<opts, attempt, caught, retryResult, delay, clock>>
    /\ UNCHANGED <<scrapeVars, checksumVars, backoffVars, cronVars,
                   urnVars, searchVars, sweepVars>>

\* A rejection of the promise of onRetry is swallowed.
SettleOnRetry_Swallowed ==
    /\ pc = "awaitOnRetry"
    /\ trace' = Append(trace,
          Ev("onRetrySettled", attempt, caught, delay,
             IF pending.kind = "return" THEN "resolved" ELSE "rejected"))
    /\ result' = result
    /\ pc' = "sleep"
    /\ pending' = NoPending
    /\ UNCHANGED <<opts, attempt, caught, retryResult, delay, clock>>
    /\ UNCHANGED <<scrapeVars, checksumVars, backoffVars, cronVars,
                   urnVars, searchVars, sweepVars>>

\* await onRetry(...) settles.
SettleOnRetry ==
    /\ pc = "awaitOnRetry"
    /\ IF pending.kind = "return"
          THEN /\ trace' = Append(trace,
                     Ev("onRetrySettled", attempt, caught, delay, "resolved"))
               /\ result' = result
               /\ pc' = "sleep"
          ELSE /\ trace' = Append(trace,
                     Ev("onRetrySettled", attempt, caught, delay, "rejected"))
               /\ result' = Rejected(pending.val)
               /\ pc' = "done"
    /\ pending' = NoPending
    /\ UNCHANGED <<opts, attempt, caught, retryResult, delay, clock>>
    /\ UNCHANGED <<scrapeVars, checksumVars, backoffVars, cronVars,
                   urnVars, searchVars, sweepVars>>

\* await sleep(delay): the task is suspended.
StartSleep ==
    /\ pc = "sleep"
    /\ trace' = Append(trace, Ev("sleep", attempt, "", delay, "called"))
    /\ pc' = "sleeping"
    /\ UNCHANGED <<opts, attempt, caught, retryResult, delay, pending,
                   result, clock>>
    /\ UNCHANGED <<scrapeVars, checksumVars, backoffVars, cronVars,
                   urnVars, searchVars, sweepVars>>

\* The counter is not incremented.
NextAttempt_Stuck(att) == att

\* The attempt counter after a retry: withRetry.ts:76.
NextAttempt(att) == att + 1

\* The timer fires after delay; attempt++ and back to the loop test.
SleepElapsed ==
    /\ pc = "sleeping"
    /\ clock' = clock + delay
    /\ trace' = Append(trace, Ev("sleepSettled", attempt, "", delay, "elapsed"))
    /\ attempt' = NextAttempt(attempt)
    /\ pc' = "while"
    /\ UNCHANGED <<opts, caught, retryResult, delay, pending, result>>
    /\ UNCHANGED <<scrapeVars, checksumVars, backoffVars, cronVars,
                   urnVars, searchVars, sweepVars>>

----------------------------------------------------------------------------
(* Persisted tables and the pages served by the site.                      *)

PostingIds == 1..NumPostings

\* A null column.
NullTime == -1
Null     == "null"

\* The scraped fields of a page: what getJobTitle, getCompanyId,
\* getCompanyName, getLocation and getJobDescription return for it.
Page(t, cid, cname, l, d) ==
    [jobTitle |-> t, companyId |-> cid, companyName |-> cname,
     location |-> l, description |-> d]

\* Two versions of a posting's page; the second names no company.
Pages ==
    { Page("t1", "c7", "acme", "l1", "d1"),
      Page("t2", Null, Null, "l2", "d2") }

\* A page on which a selector finds no element: an extractor throws.
BrokenPage == Page("", Null, Null, "", "")

\* What fetch() can answer.
Responses ==
    [status : {200}, page : Pages \cup {BrokenPage}]
        \cup [status : {302, 404, 500}, page : {BrokenPage}]

\* JobExtraction values the AI call can produce.
Extractions == {"x1", "x2"}

\* JavaScript values as createChecksum sees them: the typeof tag (arrays
\* apart, as Array.isArray tells them), the text of a primitive, and the
\* elements of an array or the entries of an object in insertion order.
JsNull        == [t |-> "null", p |-> "", kids |-> <<>>]
JsBool(text)  == [t |-> "boolean", p |-> text, kids |-> <<>>]
JsNum(text)   == [t |-> "number", p |-> text, kids |-> <<>>]
JsStr(text)   == [t |-> "string", p |-> text, kids |-> <<>>]
JsArr(items)  == [t |-> "array", p |-> "", kids |-> items]
JsObj(ents)   == [t |-> "object", p |-> "", kids |-> ents]
JsOther(type) == [t |-> type, p |-> "", kids |-> <<>>]
Entry(k, v)   == [k |-> k, v |-> v]

\* bigint is not among the rejected types.
UnsupportedTypes_NoBigint == {"undefined", "function", "symbol"}

\* typeof values normalizeForChecksum rejects.
UnsupportedTypes == {"undefined", "function", "symbol", "bigint"}

\* throw new TypeError(`Unsupported type for checksum: ${type}. ...`)
TypeError(type) == [t |-> "TypeError", p |-> type, kids |-> <<>>]

\* Numbers that are not finite.
NonFinite == {"NaN", "Infinity", "-Infinity"}

\* Rank of a key in the order of Array.prototype.sort() (UTF-16 code
\* units).
KeyRank(k) ==
    CASE k = "a"           -> 1
      [] k = "b"           -> 2
      [] k = "companyName" -> 3
      [] k = "description" -> 4
      [] k = "jobTitle"    -> 5
      [] k = "location"    -> 6

\* The keys are left in insertion order.
SortedEntries_InsertionOrder(ents) == ents

\* Object.keys(obj).sort(), as the entries in that order.
SortedEntries(ents) ==
    [i \in 1..Len(ents) |->
        CHOOSE e \in {ents[j] : j \in 1..Len(ents)} :
            Cardinality({j \in 1..Len(ents) : KeyRank(ents[j].k) < KeyRank(e.k)})
                = i - 1]

\* The first thrown error of a left-to-right evaluation, if any.
FirstThrown(results) ==
    LET bad == {i \in 1..Len(results) : results[i].t = "TypeError"}
    IN  IF bad = {} THEN JsNull
        ELSE results[CHOOSE i \in bad : \A j \in bad : i <= j]

RECURSIVE normalizeForChecksum(_)
\* normalizeForChecksum: the normalised value, or the TypeError thrown.
normalizeForChecksum(value) ==
    IF value.t = "null" THEN value
    ELSE IF value.t \in {"string", "number", "boolean"} THEN value
    ELSE IF value.t \in UnsupportedTypes THEN TypeError(value.t)
    ELSE IF value.t = "array"
       THEN LET items == [i \in 1..Len(value.kids) |->
                            normalizeForChecksum(value.kids[i])]
            IN  IF FirstThrown(items) # JsNull THEN FirstThrown(items)
                ELSE JsArr(items)
    ELSE LET sorted == SortedEntries(value.kids)
             vals   == [i \in 1..Len(sorted) |->
                          normalizeForChecksum(sorted[i].v)]
         IN  IF FirstThrown(vals) # JsNull THEN FirstThrown(vals)
             ELSE JsObj([i \in 1..Len(sorted) |->
                            Entry(sorted[i].k, vals[i])])

\* A string literal of JSON text (the strings of the model hold no
\* character that JSON.stringify escapes).
Quote(text) == "\"" \o text \o "\""

RECURSIVE JoinComma(_)
JoinComma(texts) ==
    IF Len(texts) = 0 THEN ""
    ELSE IF Len(texts) = 1 THEN texts[1]
    ELSE texts[1] \o "," \o JoinComma(Tail(texts))

RECURSIVE JsonStringify(_)
\* JSON.stringify of a normalised value: a number that is not finite is
\* written as null.
JsonStringify(value) ==
    CASE value.t = "null"    -> "null"
      [] value.t = "boolean" -> value.p
      [] value.t = "number"  -> IF value.p \in NonFinite THEN "null"
                                                         ELSE value.p
      [] value.t = "string"  -> Quote(value.p)
      [] value.t = "array"   ->
            "[" \o JoinComma([i \in 1..Len(value.kids) |->
                                JsonStringify(value.kids[i])]) \o "]"
      [] value.t = "object"  ->
            "{" \o JoinComma([i \in 1..Len(value.kids) |->
                                Quote(value.kids[i].k) \o ":"
                                    \o JsonStringify(value.kids[i].v)]) \o "}"

\* createChecksum: the digest of the serialised normal form, or the
\* TypeError thrown.  SHA-256 is taken to be collision free, so the digest
\* stands for the text it hashes.
createChecksum(obj) ==
    LET normalized == normalizeForChecksum(obj)
    IN  IF normalized.t = "TypeError"
           THEN <<"TypeError", normalized.p>>
           ELSE <<"sha256", JsonStringify(normalized)>>

\* A scraped field as a JavaScript value.
JsField(x) == IF x = Null THEN JsNull ELSE JsStr(x)

\* The company name is left out of the data.
JobData_NoCompany(pg) ==
    JsObj(<< Entry("jobTitle", JsField(pg.jobTitle)),
             Entry("location", JsField(pg.location)),
             Entry("description", JsField(pg.description)) >>)

\* const data = { jobTitle, companyName, location, description }
JobData(pg) ==
    JsObj(<< Entry("jobTitle", JsField(pg.jobTitle)),
             Entry("companyName", JsField(pg.companyName)),
             Entry("location", JsField(pg.location)),
             Entry("description", JsField(pg.description)) >>)

NoRow == [id |-> 0]

DetailRow(id, postingId, checksum, title, location, text, json, company) ==
    [id |-> id, jobPostingId |-> postingId, checksum |-> checksum,
     title |-> title, location |-> location, text |-> text, json |-> json,
     linkedinCompanyId |-> company]

HistoryRow(checksum, title, location, text, json, detailId, company) ==
    [checksum |-> checksum, title |-> title, location |-> location,
     text |-> text, json |-> json, jobPostingDetailId |-> detailId,
     linkedinCompanyId |-> company]

\* The database after discovery: postings never scraped, nothing else.
EmptyDb ==
    [posting |-> [p \in PostingIds |->
                    [lastScrapedAt |-> NullTime, isDeleted |-> FALSE]],
     detail  |-> {},
     history |-> <<>>,
     company |-> {}]

----------------------------------------------------------------------------
(* Calls of createChecksum (src/unnamed/part_002) on structured values.    *)

Keys == {"a", "b"}

\* Primitives: same text under different types, and a number that is not
\* finite.
Scalars ==
    {JsNull, JsBool("true"), JsNum("1"), JsNum("NaN"), JsStr("1"),
     JsStr("null")}

\* The values put inside arrays and objects.
FlatValues == {JsNum("1"), JsStr("1")}

SeqsUpTo(S, n) == UNION {[1..m -> S] : m \in 0..n}

\* The objects with keys among Keys and values in S, in every insertion
\* order.
ObjectsOver(S) ==
    {JsObj(<<>>)}
        \cup {JsObj(<<Entry(k, v)>>) : k \in Keys, v \in S}
        \cup {JsObj(<<Entry(e[1], e[3]), Entry(e[2], e[4])>>) :
                e \in {x \in Keys \X Keys \X S \X S : x[1] # x[2]}}

FlatArrays  == {JsArr(items) : items \in SeqsUpTo(FlatValues, MaxArrayLen)}
FlatObjects == ObjectsOver(FlatValues)

\* Objects inside objects and arrays inside objects.
NestedObjects ==
    {JsObj(<<Entry("a", v)>>) : v \in FlatArrays \cup FlatObjects}
        \cup {JsObj(<<Entry("a", v), Entry("b", JsNum("1"))>>) :
                v \in FlatObjects}
        \cup {JsObj(<<Entry("b", JsNum("1")), Entry("a", v)>>) :
                v \in FlatObjects}

\* Objects as array elements.
ArraysOfObjects == {JsArr(<<v>>) : v \in FlatObjects}

\* Values with a rejected type at the top, in an array, in an object.
Unsupported ==
    {JsOther(type) : type \in UnsupportedTypes}
        \cup {JsArr(<<JsNum("1"), JsOther("undefined")>>),
              JsObj(<<Entry("a", JsOther("function"))>>),
              JsObj(<<Entry("b", JsOther("symbol")),
                      Entry("a", JsOther("bigint"))>>),
              JsObj(<<Entry("a", JsObj(<<Entry("b", JsOther("symbol"))>>))>>),
              JsObj(<<Entry("a", JsArr(<<JsOther("bigint")>>)),
                      Entry("b", JsNum("1"))>>),
              JsArr(<<JsObj(<<Entry("a", JsOther("undefined"))>>)>>),
              JsArr(<<JsArr(<<JsStr("1"), JsOther("function")>>)>>)}

ChecksumInputs ==
    Scalars \cup FlatArrays \cup FlatObjects \cup NestedObjects
        \cup ArraysOfObjects \cup Unsupported

\* The call has not been made.
NoSum == <<>>

ChecksumIdle ==
    /\ ckIn = <<JsNull, JsNull>>
    /\ ckOut = <<NoSum, NoSum>>

ChecksumInit ==
    /\ ckIn \in ChecksumInputs \X ChecksumInputs
    /\ ckOut = <<NoSum, NoSum>>

\* createChecksum(ckIn[i]) is called and returns or throws.
CallCreateChecksum ==
    /\ \E i \in {1, 2} :
          /\ ckOut[i] = NoSum
          /\ ckOut' = [ckOut EXCEPT ![i] = createChecksum(ckIn[i])]
    /\ UNCHANGED ckIn
    /\ UNCHANGED <<retryVars, scrapeVars, backoffVars, cronVars,
                   urnVars, searchVars, sweepVars>>

----------------------------------------------------------------------------
(* Calls of the backoff strategies (src/utils/withRetry.ts).               *)

\* Delays in ms, among them the values of the unit tests.
BackoffDelays == {0, 1, 500, 1000, 2000, 6000, 1000000}
BackoffMaxDelays == {0, 3000, 5000, 10000}

BackoffStrategies ==
    {Strategy(name) : name \in BackoffNames}
        \cup {Custom(d) : d \in {1000, 4000, 7000}}

\* A bare strategy is called with no jitter; a custom function is called
\* as the tests call it.
BackoffCalls ==
    {c \in [backoff      : BackoffStrategies,
            decorated    : BOOLEAN,
            factor       : 0..Grain,
            random       : 0..Grain,
            initialDelay : BackoffDelays,
            attempt      : (0 - MaxBackoffAttempt)..MaxBackoffAttempt,
            maxDelay     : BackoffMaxDelays] :
        /\ ~c.decorated => c.factor = 0 /\ c.random = 0
        /\ c.backoff.name = "custom" =>
                c.initialDelay = 1000 /\ c.attempt = 1}

\* The call computes no fraction of a millisecond.
Whole(c) ==
    LET base == CallStrategy(c.backoff, c.initialDelay, c.attempt,
                             c.maxDelay)
    IN  /\ (c.backoff.name = "exponentialBackoff" /\ c.attempt < 1) =>
                c.initialDelay % Pow2(1 - c.attempt) = 0
        /\ c.decorated =>
                (base * RandomFactor(c.random, c.factor))
                    % (Grain * Grain) = 0

NoCall == [backoff |-> Strategy("fixedBackoff"), decorated |-> FALSE,
           factor |-> 0, random |-> 0, initialDelay |-> 0, attempt |-> 0,
           maxDelay |-> 0]

BackoffIdle ==
    /\ boIn = NoCall
    /\ boOut = <<>>

BackoffInit ==
    /\ boIn \in {c \in BackoffCalls : Whole(c)}
    /\ boOut = <<>>

\* The strategy, or the function withRandomness made of it, is called.
CallBackoff ==
    /\ boOut = <<>>
    /\ boOut' =
          << IF boIn.decorated
                THEN withRandomness(boIn.backoff, boIn.factor, boIn.random,
                        boIn.initialDelay, boIn.attempt, boIn.maxDelay)
                ELSE CallStrategy(boIn.backoff, boIn.initialDelay,
                        boIn.attempt, boIn.maxDelay) >>
    /\ UNCHANGED boIn
    /\ UNCHANGED <<retryVars, scrapeVars, checksumVars, cronVars,
                   urnVars, searchVars, sweepVars>>

----------------------------------------------------------------------------
(* scrapeLinkedInJobsJob (src/providers/linkedin/createLinkedInJobs.ts,    *)
(* src/jobs.ts) and the runs of scrapeJobsTask it starts.                  *)

\* The job runs again while a run is in progress.
Protect_Off == FALSE

\* { protect: true }: a fire of the timer is skipped while a run started
\* by the job is in progress.
Protect == TRUE

\* One call of scrapeJobsTask: where it is, the postings left to scrape,
\* and the postings whose scrapeJobPage call has not settled.
NewRun == [pc |-> "query", queue |-> <<>>, inflight |-> {}]

\* What findMany can return: distinct postings, in some order.
RunQueues ==
    {q \in SeqsUpTo(PostingIds, NumPostings) :
        \A i, j \in 1..Len(q) : i # j => q[i] # q[j]}

\* No cron job exists.
CronIdle ==
    /\ cron = [mode |-> "none", paused |-> TRUE, blocking |-> FALSE,
               ticks |-> 0, triggered |-> FALSE]
    /\ runs = <<>>

\* The job as createLinkedInJobs returns it, running on its schedule, or
\* as jobs.ts leaves it for the command line: paused, to be triggered by
\* hand.
CronInit ==
    /\ \E mode \in {"scheduled", "cli"} :
          cron = [mode |-> mode, paused |-> mode = "cli",
                  blocking |-> FALSE, ticks |-> 0, triggered |-> FALSE]
    /\ runs = <<>>

\* The timer of the job fires: the task is called unless the job is
\* paused or, under protect, busy.
CronTick ==
    /\ cron.mode # "none"
    /\ cron.ticks < MaxTicks
    /\ IF ~cron.paused /\ ~(Protect /\ cron.blocking) /\ Len(runs) < MaxRuns
          THEN /\ runs' = Append(runs, NewRun)
               /\ cron' = [cron EXCEPT !.ticks = @ + 1, !.blocking = TRUE]
          ELSE /\ runs' = runs
               /\ cron' = [cron EXCEPT !.ticks = @ + 1]
    /\ UNCHANGED <<retryVars, scrapeVars, checksumVars, backoffVars,
                   urnVars, searchVars, sweepVars>>

\* job.trigger() of the command line (jobs.ts:21-25), once per job: the
\* task is called whatever the state of the job.
CliTrigger ==
    /\ cron.mode = "cli"
    /\ ~cron.triggered
    /\ runs' = Append(runs, NewRun)
    /\ cron' = [cron EXCEPT !.triggered = TRUE, !.blocking = TRUE]
    /\ UNCHANGED <<retryVars, scrapeVars, checksumVars, backoffVars,
                   urnVars, searchVars, sweepVars>>

\* await prisma.jobPosting.findMany(...); return when nothing is found.
RunQuery ==
    /\ \E i \in 1..Len(runs) :
          /\ runs[i].pc = "query"
          /\ \E q \in RunQueues :
                IF q = <<>>
                   THEN /\ runs' = [runs EXCEPT ![i].pc = "ended"]
                        /\ cron' = [cron EXCEPT !.blocking = FALSE]
                   ELSE /\ runs' = [runs EXCEPT ![i].pc = "loop",
                                                ![i].queue = q]
                        /\ cron' = cron
    /\ UNCHANGED <<retryVars, scrapeVars, checksumVars, backoffVars,
                   urnVars, searchVars, sweepVars>>

\* The call is not awaited: the loop goes on at once.
LoopMayAdvance_NoAwait(run) == TRUE

\* for (const posting of ...) { await scrapeJobPage(posting); }: the loop
\* goes on when the call it awaits has settled.
LoopMayAdvance(run) == run.inflight = {}

\* The loop calls scrapeJobPage for the next posting.
RunStartScrape ==
    /\ \E i \in 1..Len(runs) :
          /\ runs[i].pc = "loop"
          /\ LoopMayAdvance(runs[i])
          /\ runs[i].queue # <<>>
          /\ runs' = [runs EXCEPT
                         ![i].inflight = @ \cup {Head(runs[i].queue)},
                         ![i].queue = Tail(@)]
    /\ UNCHANGED cron
    /\ UNCHANGED <<retryVars, scrapeVars, checksumVars, backoffVars,
                   urnVars, searchVars, sweepVars>>

\* A call of scrapeJobPage returns.
RunScrapeReturns ==
    /\ \E i \in 1..Len(runs) : \E p \in runs[i].inflight :
          runs' = [runs EXCEPT ![i].inflight = @ \ {p}]
    /\ UNCHANGED cron
    /\ UNCHANGED <<retryVars, scrapeVars, checksumVars, backoffVars,
                   urnVars, searchVars, sweepVars>>

\* A call of scrapeJobPage throws: scrapeJobsTask does not catch, the run
\* is over.  Whether the scheduler takes the job for idle after a
\* rejected run is left open.
RunScrapeThrows ==
    /\ \E i \in 1..Len(runs) : \E p \in runs[i].inflight :
          /\ runs[i].pc = "loop"
          /\ runs' = [runs EXCEPT ![i].pc = "ended",
                                  ![i].inflight = @ \ {p}]
    /\ \E b \in {cron.blocking, FALSE} : cron' = [cron EXCEPT !.blocking = b]
    /\ UNCHANGED <<retryVars, scrapeVars, checksumVars, backoffVars,
                   urnVars, searchVars, sweepVars>>

\* The loop is over: scrapeJobsTask returns.
RunEnds ==
    /\ \E i \in 1..Len(runs) :
          /\ runs[i].pc = "loop"
          /\ LoopMayAdvance(runs[i])
          /\ runs[i].queue = <<>>
          /\ runs' = [runs EXCEPT ![i].pc = "ended"]
    /\ cron' = [cron EXCEPT !.blocking = FALSE]
    /\ UNCHANGED <<retryVars, scrapeVars, checksumVars, backoffVars,
                   urnVars, searchVars, sweepVars>>

----------------------------------------------------------------------------
(* scrapeJobsTask (src/providers/linkedin/tasks/scrapeCompaniesTask.ts).   *)

\* 24 * 60 * 60 * 1000 ms, in hours.
LAST_SCRAPED_THRESHOLD == 24

\* findMany({ take: 10 })
TakeLimit == 10

\* Hours between two looks at the clock.
TickHours == 25

\* A let that was never assigned.
Undefined == "undefined"

\* findFirst found no row.
NoMatch == [found |-> FALSE, json |-> Null]

IdleJob ==
    [pc |-> "idle", posting |-> 0, fetchAttempt |-> 0, aiAttempt |-> 0,
     page |-> BrokenPage, checksum |-> <<>>, existingDetail |-> NoRow,
     linkedinCompany |-> Null, checksumMatch |-> NoMatch,
     jobExtractionData |-> Undefined]

\* No scrape of this run precedes the running one.
NoPrev == [posting |-> 0, checksum |-> <<>>, path |-> "", aiCalls |-> 0]

\* last: for each posting, the page its latest scrapeJobPage call that
\* returned had scraped (BrokenPage while no call has returned).
EmptyLog ==
    [path |-> "", notFound |-> FALSE, otherStatus |-> FALSE, aiCalls |-> 0,
     reused |-> FALSE, txBegun |-> 0, txCommitted |-> 0, failedAt |-> "",
     prev |-> NoPrev, last |-> [p \in PostingIds |-> BrokenPage]]

\* The pages of the calls that returned, the running one included once it
\* has returned.
LastPages ==
    IF job.pc = "returned" THEN [log.last EXCEPT ![job.posting] = job.page]
                           ELSE log.last

NoTx == [open |-> FALSE, db |-> EmptyDb]

ScrapeIdle ==
    /\ env = [SKIP_JOB_ANALYZE |-> FALSE]
    /\ db = EmptyDb
    /\ tx = NoTx
    /\ now = 0
    /\ scrapes = 0
    /\ task = [pc |-> "idle", queue |-> <<>>]
    /\ job = IdleJob
    /\ pre = EmptyDb
    /\ log = EmptyLog

ScrapeInit ==
    /\ env \in [SKIP_JOB_ANALYZE : BOOLEAN]
    /\ db = EmptyDb
    /\ tx = NoTx
    /\ now = 0
    /\ scrapes = 0
    /\ task = [pc |-> "idle", queue |-> <<>>]
    /\ job = IdleJob
    /\ pre = EmptyDb
    /\ log = EmptyLog

\* The where clause of the findMany.
IsStale(p) ==
    /\ \/ db.posting[p].lastScrapedAt = NullTime
       \/ db.posting[p].lastScrapedAt < now - LAST_SCRAPED_THRESHOLD
    /\ ~db.posting[p].isDeleted

\* orderBy lastScrapedAt desc: a comes no later than b (nulls first).
DescOrder(a, b) ==
    \/ db.posting[a].lastScrapedAt = NullTime
    \/ /\ db.posting[b].lastScrapedAt # NullTime
       /\ db.posting[a].lastScrapedAt >= db.posting[b].lastScrapedAt

\* The results findMany can return: the first TakeLimit stale postings in
\* descending order (the order among equals is the database's choice).
Selections ==
    LET stale == {p \in PostingIds : IsStale(p)}
        n     == Min(TakeLimit, Cardinality(stale))
    IN  { q \in [1..n -> stale] :
            /\ \A i, j \in 1..n : i < j => q[i] # q[j] /\ DescOrder(q[i], q[j])
            /\ \A p \in stale : (\A i \in 1..n : q[i] # p) =>
                                    \A i \in 1..n : DescOrder(q[i], p) }

\* The cron fires while no run is in progress (protect: true): the task
\* queries the stale postings and returns at once when there are none.
CronFire ==
    /\ task.pc = "idle"
    /\ scrapes < MaxScrapes
    /\ \E q \in Selections :
          task' = IF Len(q) = 0 THEN [pc |-> "idle", queue |-> <<>>]
                                ELSE [pc |-> "loop", queue |-> q]
    /\ job' = IdleJob
    /\ log' = [EmptyLog EXCEPT !.last = LastPages]
    /\ pre' = db
    /\ UNCHANGED <<env, db, tx, now, scrapes>>
    /\ UNCHANGED <<retryVars, checksumVars, backoffVars, cronVars,
                   urnVars, searchVars, sweepVars>>

\* Time passes between runs.
Tick ==
    /\ task.pc = "idle"
    /\ now < MaxNow
    /\ now' = now + TickHours
    /\ UNCHANGED <<env, db, tx, scrapes, task, job, pre, log>>
    /\ UNCHANGED <<retryVars, checksumVars, backoffVars, cronVars,
                   urnVars, searchVars, sweepVars>>

\* for (const posting of ...) await scrapeJobPage(posting): the next call.
StartScrape ==
    /\ task.pc = "loop"
    /\ job.pc \in {"idle", "returned"}
    /\ task.queue # <<>>
    /\ scrapes < MaxScrapes
    /\ scrapes' = scrapes + 1
    /\ job' = [IdleJob EXCEPT !.pc = "getHtml", !.posting = Head(task.queue),
                              !.fetchAttempt = 1]
    /\ task' = [task EXCEPT !.queue = Tail(task.queue)]
    /\ pre' = db
    /\ log' = [EmptyLog EXCEPT
                 !.prev =
                    IF job.pc = "returned"
                       THEN [posting |-> job.posting, checksum |-> job.checksum,
                             path |-> log.path, aiCalls |-> log.aiCalls]
                       ELSE NoPrev,
                 !.last = LastPages]
    /\ UNCHANGED <<env, db, tx, now>>
    /\ UNCHANGED <<retryVars, checksumVars, backoffVars, cronVars,
                   urnVars, searchVars, sweepVars>>

\* The loop is over: the task returns.
FinishTask ==
    /\ task.pc = "loop"
    /\ job.pc \in {"idle", "returned"}
    /\ task.queue = <<>>
    /\ task' = [pc |-> "idle", queue |-> <<>>]
    /\ job' = IdleJob
    /\ pre' = db
    /\ log' = [EmptyLog EXCEPT !.last = LastPages]
    /\ UNCHANGED <<env, db, tx, now, scrapes>>
    /\ UNCHANGED <<retryVars, checksumVars, backoffVars, cronVars,
                   urnVars, searchVars, sweepVars>>

\* scrapeJobPage threw: nothing catches it, the run ends there.
AbortTask ==
    /\ task.pc = "loop"
    /\ job.pc = "threw"
    /\ task' = [pc |-> "idle", queue |-> <<>>]
    /\ job' = IdleJob
    /\ pre' = db
    /\ log' = [EmptyLog EXCEPT !.last = LastPages]
    /\ UNCHANGED <<env, db, tx, now, scrapes>>
    /\ UNCHANGED <<retryVars, checksumVars, backoffVars, cronVars,
                   urnVars, searchVars, sweepVars>>

----------------------------------------------------------------------------
(* getHtml (src/utils/firstOrThrow.ts) as scrapeJobPage calls it.          *)

\* maxAttempts of the withRetry call in getHtml.
GetHtmlMaxAttempts == 6

Threw(j, l, where) ==
    /\ job' = [j EXCEPT !.pc = "threw", !.fetchAttempt = 0, !.aiAttempt = 0]
    /\ log' = [l EXCEPT !.failedAt = where]

\* onNotFound of scrapeJobPage: the posting is marked deleted, outside of
\* any transaction.
onNotFound(d, p) ==
    [d EXCEPT !.posting[p] = [isDeleted |-> TRUE, lastScrapedAt |-> now]]

\* One run of the operation getHtml hands to withRetry: fetch, then the
\* status checks.  A failed run is retried until attempt 6; the default
\* retryCondition retries every error.
GetHtmlAttempt ==
    /\ job.pc = "getHtml"
    /\ \E r \in Responses :
          LET l == [log EXCEPT !.notFound = @ \/ r.status = 404,
                               !.otherStatus = @ \/ r.status # 404]
          IN
          CASE r.status >= 300 /\ r.status < 400 ->
                 \* return options.handleRedirect?.(location): undefined
                 /\ job' = [job EXCEPT !.pc = "extract", !.page = BrokenPage,
                                       !.fetchAttempt = 0]
                 /\ log' = l
                 /\ db' = db
            [] r.status = 404 ->
                 /\ db' = onNotFound(db, job.posting)
                 /\ IF job.fetchAttempt = GetHtmlMaxAttempts
                       THEN Threw(job, l, "getHtml")
                       ELSE /\ job' = [job EXCEPT !.fetchAttempt = @ + 1]
                            /\ log' = l
            [] r.status = 500 ->
                 /\ db' = db
                 /\ IF job.fetchAttempt = GetHtmlMaxAttempts
                       THEN Threw(job, l, "getHtml")
                       ELSE /\ job' = [job EXCEPT !.fetchAttempt = @ + 1]
                            /\ log' = l
            [] OTHER ->
                 /\ job' = [job EXCEPT !.pc = "extract", !.page = r.page,
                                       !.fetchAttempt = 0]
                 /\ log' = l
                 /\ db' = db
    /\ UNCHANGED <<env, tx, now, scrapes, task, pre>>
    /\ UNCHANGED <<retryVars, checksumVars, backoffVars, cronVars,
                   urnVars, searchVars, sweepVars>>

----------------------------------------------------------------------------
(* scrapeJobPage (src/providers/linkedin/scrapers/job-page/schemas.ts).    *)

Truthy(x) == x # Null /\ x # Undefined /\ x # ""

\* getJobTitle() ... getJobDescription(), data and createChecksum(data).
ExtractFields ==
    /\ job.pc = "extract"
    /\ IF job.page = BrokenPage
          THEN Threw(job, log, "extract")
          ELSE /\ job' = [job EXCEPT !.pc = "findExisting",
                              !.checksum = createChecksum(JobData(job.page))]
               /\ log' = log
    /\ UNCHANGED <<env, db, tx, now, scrapes, task, pre>>
    /\ UNCHANGED <<retryVars, checksumVars, backoffVars, cronVars,
                   urnVars, searchVars, sweepVars>>

\* The lookup never finds the row of the posting.
FindExistingDetail_Blind ==
    /\ job.pc = "findExisting"
    /\ job' = [job EXCEPT !.pc = "upsertCompany", !.existingDetail = NoRow]
    /\ UNCHANGED <<env, db, tx, now, scrapes, task, pre, log>>
    /\ UNCHANGED <<retryVars, checksumVars, backoffVars, cronVars,
                   urnVars, searchVars, sweepVars>>

\* prisma.jobPostingDetail.findFirst({ where: { jobPostingId } })
FindExistingDetail ==
    /\ job.pc = "findExisting"
    /\ LET rows == {r \in db.detail : r.jobPostingId = job.posting}
       IN  \/ /\ rows = {}
              /\ job' = [job EXCEPT !.pc = "upsertCompany",
                                    !.existingDetail = NoRow]
           \/ \E r \in rows :
                 job' = [job EXCEPT !.pc = "upsertCompany",
                                    !.existingDetail = r]
    /\ UNCHANGED <<env, db, tx, now, scrapes, task, pre, log>>
    /\ UNCHANGED <<retryVars, checksumVars, backoffVars, cronVars,
                   urnVars, searchVars, sweepVars>>

\* prisma.linkedinCompany.upsert, when the page names a company.
UpsertCompany ==
    /\ job.pc = "upsertCompany"
    /\ IF Truthy(job.page.companyId) /\ Truthy(job.page.companyName)
          THEN /\ db' = [db EXCEPT !.company =
                     {c \in @ : c.linkedinCompanyId # job.page.companyId}
                        \cup {[linkedinCompanyId |-> job.page.companyId,
                               companySlug |-> job.page.companyName]}]
               /\ job' = [job EXCEPT !.pc = "compare",
                                     !.linkedinCompany = job.page.companyId]
          ELSE /\ db' = db
               /\ job' = [job EXCEPT !.pc = "compare",
                                     !.linkedinCompany = Null]
    /\ UNCHANGED <<env, tx, now, scrapes, task, pre, log>>
    /\ UNCHANGED <<retryVars, checksumVars, backoffVars, cronVars,
                   urnVars, searchVars, sweepVars>>

\* The comparison never finds the row unchanged.
IsUnchanged_Never(existing, checksum) == FALSE

\* The comparison is inverted.
IsUnchanged_Inverted(existing, checksum) ==
    existing # NoRow /\ existing.checksum # checksum

\* The test of scrapeJobPage.ts:260.
IsUnchanged(existing, checksum) ==
    existing # NoRow /\ existing.checksum = checksum

\* There is no early return: an unchanged page is written like a changed one.
CheckUnchanged_FallsThrough ==
    /\ job.pc = "compare"
    /\ job' = [job EXCEPT !.pc = "findChecksumMatch"]
    /\ log' = [log EXCEPT !.path =
                 IF job.existingDetail = NoRow THEN "Unseen"
                 ELSE IF IsUnchanged(job.existingDetail, job.checksum)
                         THEN "Unchanged" ELSE "Changed"]
    /\ UNCHANGED <<env, db, tx, now, scrapes, task, pre>>
    /\ UNCHANGED <<retryVars, checksumVars, backoffVars, cronVars,
                   urnVars, searchVars, sweepVars>>

\* if (existingDetail && existingDetail.checksum === checksum) return;
CheckUnchanged ==
    /\ job.pc = "compare"
    /\ IF IsUnchanged(job.existingDetail, job.checksum)
          THEN /\ job' = [job EXCEPT !.pc = "returned"]
               /\ log' = [log EXCEPT !.path = "Unchanged"]
          ELSE /\ job' = [job EXCEPT !.pc = "findChecksumMatch"]
               /\ log' = [log EXCEPT !.path =
                            IF job.existingDetail = NoRow THEN "Unseen"
                                                          ELSE "Changed"]
    /\ UNCHANGED <<env, db, tx, now, scrapes, task, pre>>
    /\ UNCHANGED <<retryVars, checksumVars, backoffVars, cronVars,
                   urnVars, searchVars, sweepVars>>

\* prisma.jobPostingDetail.findFirst({ where: { checksum }, select: json })
FindChecksumMatch ==
    /\ job.pc = "findChecksumMatch"
    /\ LET rows == {r \in db.detail : r.checksum = job.checksum}
       IN  \/ /\ rows = {}
              /\ job' = [job EXCEPT !.pc = "extraction",
                                    !.checksumMatch = NoMatch]
           \/ \E r \in rows :
                 job' = [job EXCEPT !.pc = "extraction",
                            !.checksumMatch = [found |-> TRUE, json |-> r.json]]
    /\ UNCHANGED <<env, db, tx, now, scrapes, task, pre, log>>
    /\ UNCHANGED <<retryVars, checksumVars, backoffVars, cronVars,
                   urnVars, searchVars, sweepVars>>

\* The condition under which the AI call is made: scrapeJobPage.ts:280.
CallsAi == env.SKIP_JOB_ANALYZE

\* if (checksumMatch) parse(checksumMatch.json)
\* else if (ENV.SKIP_JOB_ANALYZE) await getJsonDataFromJobData(data)
ObtainExtraction ==
    /\ job.pc = "extraction"
    /\ IF job.checksumMatch.found
          THEN IF job.checksumMatch.json \in Extractions
                  THEN /\ job' = [job EXCEPT !.pc = "tx",
                              !.jobExtractionData = job.checksumMatch.json]
                       /\ log' = [log EXCEPT !.reused = TRUE]
                  ELSE Threw(job, log, "parse")
          ELSE IF CallsAi
                  THEN /\ job' = [job EXCEPT !.pc = "ai", !.aiAttempt = 1]
                       /\ log' = log
                  ELSE /\ job' = [job EXCEPT !.pc = "tx"]
                       /\ log' = log
    /\ UNCHANGED <<env, db, tx, now, scrapes, task, pre>>
    /\ UNCHANGED <<retryVars, checksumVars, backoffVars, cronVars,
                   urnVars, searchVars, sweepVars>>

\* maxAttempts of the withRetry call in getJsonDataFromJobData.
AiMaxAttempts == 2

\* One run of the operation of getJsonDataFromJobData: the API call, then
\* the checks of its answer.  Only a malformed answer is retried.
AiAttempt ==
    /\ job.pc = "ai"
    /\ LET l == [log EXCEPT !.aiCalls = @ + 1]
       IN  \/ \E x \in Extractions :
                 /\ job' = [job EXCEPT !.pc = "tx", !.jobExtractionData = x,
                                       !.aiAttempt = 0]
                 /\ log' = l
           \/ \* Failed to parse job extraction data
              IF job.aiAttempt = AiMaxAttempts
                 THEN Threw(job, l, "ai")
                 ELSE /\ job' = [job EXCEPT !.aiAttempt = @ + 1]
                      /\ log' = l
           \/ \* any other error: retryCondition answers retry: false
              Threw(job, l, "aiOther")
    /\ UNCHANGED <<env, db, tx, now, scrapes, task, pre>>
    /\ UNCHANGED <<retryVars, checksumVars, backoffVars, cronVars,
                   urnVars, searchVars, sweepVars>>

\* prisma.$transaction(async (tx) => { ... }) starts.
TxBegin ==
    /\ job.pc = "tx"
    /\ tx' = [open |-> TRUE, db |-> db]
    /\ job' = [job EXCEPT !.pc = IF job.existingDetail # NoRow
                                    THEN "txHistory" ELSE "txCreate"]
    /\ log' = [log EXCEPT !.txBegun = @ + 1]
    /\ UNCHANGED <<env, db, now, scrapes, task, pre>>
    /\ UNCHANGED <<retryVars, checksumVars, backoffVars, cronVars,
                   urnVars, searchVars, sweepVars>>

\* The data of tx.jobPostingDetailHistory.create: existingDetail's columns
\* and the company of this scrape.
HistoryData(j) ==
    HistoryRow(j.existingDetail.checksum, j.existingDetail.title,
               j.existingDetail.location, j.existingDetail.text,
               j.existingDetail.json, j.existingDetail.id, j.linkedinCompany)

\* The history record is written through prisma, not through tx.
TxHistoryCreate_Direct ==
    /\ job.pc = "txHistory"
    /\ db' = [db EXCEPT !.history = Append(@, HistoryData(job))]
    /\ tx' = [tx EXCEPT !.db.history = Append(@, HistoryData(job))]
    /\ job' = [job EXCEPT !.pc = "txUpdate"]
    /\ UNCHANGED <<env, now, scrapes, task, pre, log>>
    /\ UNCHANGED <<retryVars, checksumVars, backoffVars, cronVars,
                   urnVars, searchVars, sweepVars>>

\* tx.jobPostingDetailHistory.create: the snapshot of existingDetail.
TxHistoryCreate ==
    /\ job.pc = "txHistory"
    /\ tx' = [tx EXCEPT !.db.history = Append(@, HistoryData(job))]
    /\ job' = [job EXCEPT !.pc = "txUpdate"]
    /\ UNCHANGED <<env, db, now, scrapes, task, pre, log>>
    /\ UNCHANGED <<retryVars, checksumVars, backoffVars, cronVars,
                   urnVars, searchVars, sweepVars>>

\* The checksum is left out of the update.
UpdatedRow_StaleChecksum(r, j) ==
    [r EXCEPT !.json = IF j.jobExtractionData = Undefined
                          THEN @ ELSE j.jobExtractionData,
              !.text = j.page.description,
              !.location = j.page.location,
              !.title = j.page.jobTitle,
              !.linkedinCompanyId = j.linkedinCompany]

\* The row after update({ where: { id }, data }): a field given as
\* undefined is left as it is.
UpdatedRow(r, j) ==
    [r EXCEPT !.checksum = j.checksum,
              !.json = IF j.jobExtractionData = Undefined
                          THEN @ ELSE j.jobExtractionData,
              !.text = j.page.description,
              !.location = j.page.location,
              !.title = j.page.jobTitle,
              !.linkedinCompanyId = j.linkedinCompany]

\* The row is updated through prisma, not through tx.
TxDetailUpdate_Direct ==
    /\ job.pc = "txUpdate"
    /\ db' = [db EXCEPT !.detail =
                { IF r.id = job.existingDetail.id THEN UpdatedRow(r, job)
                                                  ELSE r : r \in @ }]
    /\ tx' = [tx EXCEPT !.db.detail =
                { IF r.id = job.existingDetail.id THEN UpdatedRow(r, job)
                                                  ELSE r : r \in @ }]
    /\ job' = [job EXCEPT !.pc = "txPosting"]
    /\ UNCHANGED <<env, now, scrapes, task, pre, log>>
    /\ UNCHANGED <<retryVars, checksumVars, backoffVars, cronVars,
                   urnVars, searchVars, sweepVars>>

\* tx.jobPostingDetail.update({ where: { id: existingDetail.id }, data })
TxDetailUpdate ==
    /\ job.pc = "txUpdate"
    /\ tx' = [tx EXCEPT !.db.detail =
                { IF r.id = job.existingDetail.id THEN UpdatedRow(r, job)
                                                  ELSE r : r \in @ }]
    /\ job' = [job EXCEPT !.pc = "txPosting"]
    /\ UNCHANGED <<env, db, now, scrapes, task, pre, log>>
    /\ UNCHANGED <<retryVars, checksumVars, backoffVars, cronVars,
                   urnVars, searchVars, sweepVars>>

\* The checksum is left out of the created row.
CreatedRow_NoChecksum(rows, j) ==
    DetailRow(Cardinality(rows) + 1, j.posting, <<>>,
              j.page.jobTitle, j.page.location, j.page.description,
              IF j.jobExtractionData = Undefined
                 THEN Null ELSE j.jobExtractionData,
              j.linkedinCompany)

\* The row of tx.jobPostingDetail.create: a json given as undefined is
\* stored as null; the id is the next of the sequence.
CreatedRow(rows, j) ==
    DetailRow(Cardinality(rows) + 1, j.posting, j.checksum,
              j.page.jobTitle, j.page.location, j.page.description,
              IF j.jobExtractionData = Undefined
                 THEN Null ELSE j.jobExtractionData,
              j.linkedinCompany)

\* tx.jobPostingDetail.create
TxDetailCreate ==
    /\ job.pc = "txCreate"
    /\ tx' = [tx EXCEPT !.db.detail = @ \cup {CreatedRow(@, job)}]
    /\ job' = [job EXCEPT !.pc = "txPosting"]
    /\ UNCHANGED <<env, db, now, scrapes, task, pre, log>>
    /\ UNCHANGED <<retryVars, checksumVars, backoffVars, cronVars,
                   urnVars, searchVars, sweepVars>>

\* tx.jobPosting.update({ data: { lastScrapedAt: new Date() } })
TxPostingUpdate ==
    /\ job.pc = "txPosting"
    /\ tx' = [tx EXCEPT !.db.posting[job.posting].lastScrapedAt = now]
    /\ job' = [job EXCEPT !.pc = "txCommit"]
    /\ UNCHANGED <<env, db, now, scrapes, task, pre, log>>
    /\ UNCHANGED <<retryVars, checksumVars, backoffVars, cronVars,
                   urnVars, searchVars, sweepVars>>

\* The callback returned: the transaction commits, all its writes at once.
TxCommit ==
    /\ job.pc = "txCommit"
    /\ db' = tx.db
    /\ tx' = NoTx
    /\ job' = [job EXCEPT !.pc = "returned"]
    /\ log' = [log EXCEPT !.txCommitted = @ + 1]
    /\ UNCHANGED <<env, now, scrapes, task, pre>>
    /\ UNCHANGED <<retryVars, checksumVars, backoffVars, cronVars,
                   urnVars, searchVars, sweepVars>>

TxSteps == {"txHistory", "txUpdate", "txCreate", "txPosting", "txCommit"}

\* A statement of the transaction (or its commit) fails: the callback
\* throws, the transaction is rolled back and scrapeJobPage throws.
TxFail ==
    /\ job.pc \in TxSteps
    /\ tx' = NoTx
    /\ Threw(job, log, job.pc)
    /\ UNCHANGED <<env, db, now, scrapes, task, pre>>
    /\ UNCHANGED <<retryVars, checksumVars, backoffVars, cronVars,
                   urnVars, searchVars, sweepVars>>

----------------------------------------------------------------------------
(* extractJobIdFromUrn (src/unnamed/part_006:25-44).                       *)

\* The parts the strings handed to the function are put together from.
UrnParts == {"urn", "li", "jobPosting", "company", "", "007", "4a"}

RECURSIVE JoinColon(_)
JoinColon(parts) ==
    IF parts = <<>> THEN ""
    ELSE IF Len(parts) = 1 THEN parts[1]
    ELSE parts[1] \o ":" \o JoinColon(Tail(parts))

UrnInputs == {JoinColon(parts) : parts \in SeqsUpTo(UrnParts, MaxUrnParts)}

\* urn.split(":"): the pieces between the colons, empty ones included.
RECURSIVE Split(_)
Split(s) ==
    LET colons == {i \in 1..Len(s) : SubSeq(s, i, i) = ":"}
    IN  IF colons = {} THEN <<s>>
        ELSE LET i == CHOOSE c \in colons : \A d \in colons : c <= d
             IN  <<SubSeq(s, 1, i - 1)>> \o Split(SubSeq(s, i + 1, Len(s)))

DecimalDigits == {"0", "1", "2", "3", "4", "5", "6", "7", "8", "9"}

\* The pattern is /^\d*$/: the empty string passes.
IsNumeric_AllowsEmpty(id) ==
    \A i \in 1..Len(id) : SubSeq(id, i, i) \in DecimalDigits

\* /^\d+$/.test(id)
IsNumeric(id) ==
    /\ Len(id) > 0
    /\ \A i \in 1..Len(id) : SubSeq(id, i, i) \in DecimalDigits

DigitValue(c) ==
    CASE c = "0" -> 0 [] c = "1" -> 1 [] c = "2" -> 2 [] c = "3" -> 3
      [] c = "4" -> 4 [] c = "5" -> 5 [] c = "6" -> 6 [] c = "7" -> 7
      [] c = "8" -> 8 [] c = "9" -> 9

\* BigInt(id), for a string of digits (the empty string gives 0n).
RECURSIVE BigInt(_)
BigInt(id) ==
    IF id = "" THEN 0
    ELSE 10 * BigInt(SubSeq(id, 1, Len(id) - 1))
            + DigitValue(SubSeq(id, Len(id), Len(id)))

\* What the function returns: a bigint or null.
JobId(n)  == [type |-> "bigint", val |-> n]
NullJobId == [type |-> "null", val |-> 0]
NoJobId   == [type |-> "pending", val |-> 0]

extractJobIdFromUrn(urn) ==
    LET parts == Split(urn)
    IN  IF /\ Len(parts) = 4
           /\ parts[1] = "urn"
           /\ parts[2] = "li"
           /\ parts[3] = "jobPosting"
           /\ IsNumeric(parts[4])
           THEN JobId(BigInt(parts[4]))
           ELSE NullJobId

UrnIdle ==
    /\ urnIn = ""
    /\ urnOut = NoJobId

UrnInit ==
    /\ urnIn \in UrnInputs
    /\ urnOut = NoJobId

CallExtractJobIdFromUrn ==
    /\ urnOut = NoJobId
    /\ urnOut' = extractJobIdFromUrn(urnIn)
    /\ UNCHANGED urnIn
    /\ UNCHANGED <<retryVars, scrapeVars, checksumVars, backoffVars, cronVars,
                   searchVars, sweepVars>>

----------------------------------------------------------------------------
(* scrapeJobsPage                                                          *)
(* (src/providers/linkedin/scrapers/job-page/schemas.ts:416-486).          *)

\* if (start >= 1000)
SearchLimit == 1000

\* The limit is passed by one page before it is noticed.
ReachedLimit_Late(start) == start > SearchLimit

ReachedLimit(start) == start >= SearchLimit

\* The numbers of li elements a page of results can hold.
PageSizes == {0, 1, 25, 400}

\* No page of the loop has been requested.
NoOffset == -1

SearchIdle ==
    search = [pc |-> "idle", start |-> 0, items |-> 0, asked |-> NoOffset]

SearchInit ==
    search = [pc |-> "first", start |-> 0, items |-> 0, asked |-> NoOffset]

\* The initial page: getHtml(url) and parsePostings(items), either of which
\* can throw; then let start = 0.
FirstPage ==
    /\ search.pc = "first"
    /\ \/ \E n \in PageSizes :
             search' = [search EXCEPT !.pc = "while", !.items = n, !.start = 0]
       \/ search' = [search EXCEPT !.pc = "threw"]
    /\ UNCHANGED <<retryVars, scrapeVars, checksumVars, backoffVars, cronVars,
                   urnVars, sweepVars>>

\* The top of while (true): the limit test, then the request of the page
\* at offset start.
TestLimit ==
    /\ search.pc = "while"
    /\ search' = IF ReachedLimit(search.start)
                    THEN [search EXCEPT !.pc = "save"]
                    ELSE [search EXCEPT !.pc = "getHtml",
                                        !.asked = search.start]
    /\ UNCHANGED <<retryVars, scrapeVars, checksumVars, backoffVars, cronVars,
                   urnVars, sweepVars>>

\* await getHtml(nextPageUrl) settles: no items ends the loop; otherwise
\* parsePostings(items) and start += items.length.  getHtml and
\* parsePostings can throw.
PageArrives ==
    /\ search.pc = "getHtml"
    /\ \/ \E n \in PageSizes :
             search' = IF n = 0
                          THEN [search EXCEPT !.pc = "save", !.items = 0]
                          ELSE [search EXCEPT !.pc = "while", !.items = n,
                                              !.start = @ + n]
       \/ search' = [search EXCEPT !.pc = "threw"]
    /\ UNCHANGED <<retryVars, scrapeVars, checksumVars, backoffVars, cronVars,
                   urnVars, sweepVars>>

\* The upserts of the collected ids; one of them can fail.
SaveJobIds ==
    /\ search.pc = "save"
    /\ \/ search' = [search EXCEPT !.pc = "done"]
       \/ search' = [search EXCEPT !.pc = "threw"]
    /\ UNCHANGED <<retryVars, scrapeVars, checksumVars, backoffVars, cronVars,
                   urnVars, sweepVars>>

----------------------------------------------------------------------------
(* scrapeJobsTask over a table of more postings than one run takes.        *)
(* scrapeJobPage is reduced to what a call does to the posting's row in    *)
(* JobPosting and to how it ends.                                          *)

SweepIds == 1..SweepPostings

\* How the site answers for a posting, whenever it is asked: with a page
\* whose fields differ from scrape to scrape, with the same page, with 404,
\* or with a page the extraction fails on.
SiteAnswers == {"changing", "same", "gone", "broken"}

\* The sites of the model: the first k postings answer one way, the others
\* another way.
Sites ==
    {[p \in SweepIds |-> IF p <= k THEN a ELSE b] :
        k \in 0..SweepPostings, a \in SiteAnswers, b \in SiteAnswers}

IdleSweep ==
    [pc |-> "idle", now |-> 0, queue |-> <<>>, posting |-> 0,
     picked |-> <<>>, passed |-> <<>>]

SweepIdle ==
    /\ board = <<>>
    /\ site = <<>>
    /\ sweep = IdleSweep

\* The table after discovery: no posting scraped yet.
SweepInit ==
    /\ board = [p \in SweepIds |->
                  [lastScrapedAt |-> NullTime, isDeleted |-> FALSE]]
    /\ site \in Sites
    /\ sweep = IdleSweep

\* A table of a few postings, every one answered for in every way.
FewIds == 1..(NumPostings + 1)

SweepFewInit ==
    /\ board = [p \in FewIds |->
                  [lastScrapedAt |-> NullTime, isDeleted |-> FALSE]]
    /\ site \in [FewIds -> SiteAnswers]
    /\ sweep = IdleSweep

\* The where clause of the findMany, over table b at time t.
Matches(b, t, p) ==
    /\ \/ b[p].lastScrapedAt = NullTime
       \/ b[p].lastScrapedAt < t - LAST_SCRAPED_THRESHOLD
    /\ ~b[p].isDeleted

\* orderBy lastScrapedAt desc, nulls first; rows with equal lastScrapedAt
\* come in the order of their ids, ascending or descending.
Precedes(b, tie, a, c) ==
    IF b[a].lastScrapedAt = b[c].lastScrapedAt
       THEN IF tie = "asc" THEN a < c ELSE a > c
       ELSE \/ b[a].lastScrapedAt = NullTime
            \/ /\ b[c].lastScrapedAt # NullTime
               /\ b[a].lastScrapedAt > b[c].lastScrapedAt

Ordered(b, tie, S) ==
    [i \in 1..Cardinality(S) |->
        CHOOSE p \in S : Cardinality({q \in S : Precedes(b, tie, q, p)}) = i - 1]

\* The query has no take.
findMany_NoTake(b, t, tie) ==
    Ordered(b, tie, {p \in DOMAIN b : Matches(b, t, p)})

\* prisma.jobPosting.findMany({ where, take: 10, orderBy })
findMany(b, t, tie) ==
    LET rows == Ordered(b, tie, {p \in DOMAIN b : Matches(b, t, p)})
    IN  SubSeq(rows, 1, Min(TakeLimit, Len(rows)))

\* The cron calls scrapeJobsTask while no run is in progress: the query,
\* and the return when it finds nothing.
SweepFire ==
    /\ sweep.pc = "idle"
    /\ \E tie \in {"asc", "desc"} :
          LET q == findMany(board, sweep.now, tie)
          IN  sweep' = [sweep EXCEPT !.pc = IF q = <<>> THEN "idle" ELSE "loop",
                                     !.queue = q, !.picked = q,
                                     !.passed = <<>>, !.posting = 0]
    /\ UNCHANGED <<board, site>>
    /\ UNCHANGED <<retryVars, scrapeVars, checksumVars, backoffVars, cronVars,
                   urnVars, searchVars>>

\* Time passes between runs: the threshold exactly, or more.
SweepTick ==
    /\ sweep.pc = "idle"
    /\ \E d \in {LAST_SCRAPED_THRESHOLD, TickHours} :
          /\ sweep.now + d <= MaxNow
          /\ sweep' = [sweep EXCEPT !.now = @ + d]
    /\ UNCHANGED <<board, site>>
    /\ UNCHANGED <<retryVars, scrapeVars, checksumVars, backoffVars, cronVars,
                   urnVars, searchVars>>

\* for (const posting of ...) await scrapeJobPage(posting): the next call.
SweepStartScrape ==
    /\ sweep.pc = "loop"
    /\ sweep.queue # <<>>
    /\ sweep' = [sweep EXCEPT !.pc = "scrape", !.posting = Head(sweep.queue),
                              !.queue = Tail(sweep.queue),
                              !.passed = Append(@, Head(sweep.queue))]
    /\ UNCHANGED <<board, site>>
    /\ UNCHANGED <<retryVars, scrapeVars, checksumVars, backoffVars, cronVars,
                   urnVars, searchVars>>

\* The posting has a detail row with the checksum of the page it serves:
\* it was scraped before and serves the same page.
FindsUnchanged ==
    /\ site[sweep.posting] = "same"
    /\ board[sweep.posting].lastScrapedAt # NullTime

\* scrapeJobPage commits its transaction: lastScrapedAt = new Date().
ScrapeWrites ==
    /\ sweep.pc = "scrape"
    /\ site[sweep.posting] \in {"changing", "same"}
    /\ ~FindsUnchanged
    /\ board' = [board EXCEPT ![sweep.posting].lastScrapedAt = sweep.now]
    /\ sweep' = [sweep EXCEPT !.pc = "loop"]
    /\ UNCHANGED site
    /\ UNCHANGED <<retryVars, scrapeVars, checksumVars, backoffVars, cronVars,
                   urnVars, searchVars>>

\* scrapeJobPage returns at the comparison of the checksums.
ScrapeUnchanged ==
    /\ sweep.pc = "scrape"
    /\ FindsUnchanged
    /\ sweep' = [sweep EXCEPT !.pc = "loop"]
    /\ UNCHANGED <<board, site>>
    /\ UNCHANGED <<retryVars, scrapeVars, checksumVars, backoffVars, cronVars,
                   urnVars, searchVars>>

\* Every fetch answers 404: onNotFound marks the posting, getHtml throws
\* after its last attempt, and the run of scrapeJobsTask ends there.
ScrapeNotFound ==
    /\ sweep.pc = "scrape"
    /\ site[sweep.posting] = "gone"
    /\ board' = [board EXCEPT ![sweep.posting] =
                    [isDeleted |-> TRUE, lastScrapedAt |-> sweep.now]]
    /\ sweep' = [sweep EXCEPT !.pc = "idle", !.queue = <<>>]
    /\ UNCHANGED site
    /\ UNCHANGED <<retryVars, scrapeVars, checksumVars, backoffVars, cronVars,
                   urnVars, searchVars>>

\* scrapeJobPage throws before its transaction: nothing is written, and
\* the run of scrapeJobsTask ends there.
ScrapeThrows ==
    /\ sweep.pc = "scrape"
    /\ site[sweep.posting] = "broken"
    /\ sweep' = [sweep EXCEPT !.pc = "idle", !.queue = <<>>]
    /\ UNCHANGED <<board, site>>
    /\ UNCHANGED <<retryVars, scrapeVars, checksumVars, backoffVars, cronVars,
                   urnVars, searchVars>>

\* The loop is over: the task returns.
SweepEnds ==
    /\ sweep.pc = "loop"
    /\ sweep.queue = <<>>
    /\ sweep' = [sweep EXCEPT !.pc = "idle"]
    /\ UNCHANGED <<board, site>>
    /\ UNCHANGED <<retryVars, scrapeVars, checksumVars, backoffVars, cronVars,
                   urnVars, searchVars>>

----------------------------------------------------------------------------
InitScrape ==
    RetryIdle /\ ScrapeInit /\ ChecksumIdle /\ BackoffIdle /\ CronIdle
        /\ UrnIdle /\ SearchIdle /\ SweepIdle

NextScrape ==
    \/ CronFire
    \/ Tick
    \/ StartScrape
    \/ FinishTask
    \/ AbortTask
    \/ GetHtmlAttempt
    \/ ExtractFields
    \/ FindExistingDetail
    \/ UpsertCompany
    \/ CheckUnchanged
    \/ FindChecksumMatch
    \/ ObtainExtraction
    \/ AiAttempt
    \/ TxBegin
    \/ TxHistoryCreate
    \/ TxDetailUpdate
    \/ TxDetailCreate
    \/ TxPostingUpdate
    \/ TxCommit
    \/ TxFail

\* The cron runs scrapeJobsTask again and again over the pages the site
\* serves.
SpecScrape == InitScrape /\ [][NextScrape]_vars

----------------------------------------------------------------------------
InitRetry ==
    RetryInit /\ ScrapeIdle /\ ChecksumIdle /\ BackoffIdle /\ CronIdle
        /\ UrnIdle /\ SearchIdle /\ SweepIdle

NextRetry ==
    \/ LoopTest
    \/ InvokeOperation
    \/ SettleOperation
    \/ CatchAbort
    \/ CallRetryCondition
    \/ Fail
    \/ ComputeDelay
    \/ CallOnRetry
    \/ SettleOnRetry
    \/ StartSleep
    \/ SleepElapsed

\* One call of withRetry, for every option set and every behaviour of the
\* operation and of the hooks.
SpecRetry == InitRetry /\ [][NextRetry]_vars

\* The same call under fair scheduling: the operation and the hooks
\* complete, timers fire, so every enabled step of the call is taken.
SpecRetryFair == SpecRetry /\ WF_vars(NextRetry)

----------------------------------------------------------------------------
InitChecksum ==
    RetryIdle /\ ScrapeIdle /\ ChecksumInit /\ BackoffIdle /\ CronIdle
        /\ UrnIdle /\ SearchIdle /\ SweepIdle

NextChecksum == CallCreateChecksum

\* Two calls of createChecksum, in either order, on every pair of inputs.
SpecChecksum == InitChecksum /\ [][NextChecksum]_vars

InitBackoff ==
    RetryIdle /\ ScrapeIdle /\ ChecksumIdle /\ BackoffInit /\ CronIdle
        /\ UrnIdle /\ SearchIdle /\ SweepIdle

NextBackoff == CallBackoff

SpecBackoff == InitBackoff /\ [][NextBackoff]_vars

----------------------------------------------------------------------------
(* The withRetry calls of the scraper: the one of getHtml                  *)
(* (src/utils/firstOrThrow.ts:19-49) and the one of getJsonDataFromJobData *)
(* (schemas.ts:342-398).                                                   *)

\* initialDelay is left at its default.
GetHtmlOptions_NoInitialDelay == [maxAttempts |-> GetHtmlMaxAttempts]

\* The options getHtml passes; its onFailure logs and returns.
GetHtmlOptions == [initialDelay |-> 2000, maxAttempts |-> GetHtmlMaxAttempts]

\* The options getJsonDataFromJobData passes.
AiOptions ==
    [maxAttempts    |-> AiMaxAttempts,
     initialDelay   |-> 1000,
     maxDelay       |-> 3000,
     retryCondition |-> "malformedOnly"]

ScraperRetryInit ==
    /\ \E options \in {GetHtmlOptions, AiOptions} :
          opts = MergeOptions(options)
    /\ attempt = 1
    /\ pc = "while"
    /\ caught = ""
    /\ retryResult = NoRetryRes
    /\ delay = NoDelay
    /\ pending = NoPending
    /\ result = NoResult
    /\ trace = <<>>
    /\ clock = 0

InitScraperRetry ==
    ScraperRetryInit /\ ScrapeIdle /\ ChecksumIdle /\ BackoffIdle /\ CronIdle
        /\ UrnIdle /\ SearchIdle /\ SweepIdle

\* The steps of withRetry these calls can take: the default onRetry
\* returns no promise.
NextScraperRetry ==
    \/ LoopTest
    \/ InvokeOperation
    \/ SettleOperation
    \/ CatchAbort
    \/ CallRetryCondition
    \/ Fail
    \/ ComputeDelay
    \/ CallOnRetry
    \/ StartSleep
    \/ SleepElapsed

\* One call of getHtml or of getJsonDataFromJobData, whatever the fetch
\* or the API answers.
SpecScraperRetry == InitScraperRetry /\ [][NextScraperRetry]_vars

----------------------------------------------------------------------------
InitCron ==
    RetryIdle /\ ScrapeIdle /\ ChecksumIdle /\ BackoffIdle /\ CronInit
        /\ UrnIdle /\ SearchIdle /\ SweepIdle

NextCron ==
    \/ CronTick
    \/ CliTrigger
    \/ RunQuery
    \/ RunStartScrape
    \/ RunScrapeReturns
    \/ RunScrapeThrows
    \/ RunEnds

\* The job from its creation on, whatever the queries return and however
\* the scrapes end.
SpecCron == InitCron /\ [][NextCron]_vars

----------------------------------------------------------------------------
InitUrn ==
    RetryIdle /\ ScrapeIdle /\ ChecksumIdle /\ BackoffIdle /\ CronIdle
        /\ UrnInit /\ SearchIdle /\ SweepIdle

NextUrn == CallExtractJobIdFromUrn

\* One call of extractJobIdFromUrn on each string of the inputs.
SpecUrn == InitUrn /\ [][NextUrn]_vars

----------------------------------------------------------------------------
InitSearch ==
    RetryIdle /\ ScrapeIdle /\ ChecksumIdle /\ BackoffIdle /\ CronIdle
        /\ UrnIdle /\ SearchInit /\ SweepIdle

NextSearch ==
    \/ FirstPage
    \/ TestLimit
    \/ PageArrives
    \/ SaveJobIds

\* One call of scrapeJobsPage, whatever the pages hold.
SpecSearch == InitSearch /\ [][NextSearch]_vars

\* The same call when every awaited promise settles: getHtml gives up after
\* its last attempt and the database answers.
SpecSearchFair == SpecSearch /\ WF_vars(NextSearch)

----------------------------------------------------------------------------
InitSweep ==
    RetryIdle /\ ScrapeIdle /\ ChecksumIdle /\ BackoffIdle /\ CronIdle
        /\ UrnIdle /\ SearchIdle /\ SweepInit

NextSweep ==
    \/ SweepFire
    \/ SweepTick
    \/ SweepStartScrape
    \/ ScrapeWrites
    \/ ScrapeUnchanged
    \/ ScrapeNotFound
    \/ ScrapeThrows
    \/ SweepEnds

\* The cron runs scrapeJobsTask again and again.
SpecSweep == InitSweep /\ [][NextSweep]_vars

InitSweepFair ==
    RetryIdle /\ ScrapeIdle /\ ChecksumIdle /\ BackoffIdle /\ CronIdle
        /\ UrnIdle /\ SearchIdle /\ SweepFewInit

\* The runs over a table of a few postings when the cron keeps firing and
\* every scrapeJobPage call settles.
SpecSweepFair == InitSweepFair /\ [][NextSweep]_vars /\ WF_vars(NextSweep)

----------------------------------------------------------------------------
(* Properties of withRetry.                                                *)

Done == pc = "done"

\* Positions of the entries of one kind in the history of calls.
Idx(ev) == {i \in 1..Len(trace) : trace[i].ev = ev}

Count(ev) == Cardinality(Idx(ev))

LastIdx(ev) == CHOOSE i \in Idx(ev) : \A j \in Idx(ev) : j <= i

\* Every invocation so far failed with an error that is not ABORT_RETRY.
OperationAlwaysFails ==
    \A i \in Idx("operationSettled") :
        trace[i].ans = "threw" /\ trace[i].val # ABORT_RETRY

\* retryCondition answered retry: true every time.
AlwaysRetry == \A i \in Idx("retryCondition") : trace[i].ans = "retry"

\* Every onRetry call so far completed without throwing.
OnRetryCompletes ==
    \A i \in Idx("onRetrySettled") : trace[i].ans \in {"returned", "resolved"}

C2_AbortShortCircuits ==
    \A i \in Idx("operationSettled") :
        (trace[i].ans = "threw" /\ trace[i].val = ABORT_RETRY) =>
            /\ i = Len(trace)
            /\ Count("operation") = trace[i].attempt
            /\ trace[i].attempt <= opts.maxAttempts
            /\ Count("onFailure") = 0
            /\ Count("retryCondition") = trace[i].attempt - 1
            /\ Count("onRetry") = trace[i].attempt - 1
            /\ Count("sleep") = trace[i].attempt - 1
            /\ pc \in {"catch", "done"}
            /\ (Done => result = [kind |-> "rejected", val |-> ABORT_RETRY])

C2_Witness ==
    /\ Done
    /\ result = [kind |-> "rejected", val |-> ABORT_RETRY]
    /\ Count("operation") = 2
    /\ clock > 0

\* C3: when the operation returns or resolves on attempt k, the call
\* resolves with exactly that value; the operation has been invoked k times
\* and onRetry k-1 times, onFailure never, and the successful settlement is
\* the last entry of the history: no hook is invoked after it.
C3_SuccessReturnsValue ==
    /\ \A i \in Idx("operationSettled") :
          trace[i].ans = "returned" =>
             /\ i = Len(trace)
             /\ Done
             /\ result = [kind |-> "resolved", val |-> trace[i].val]
             /\ trace[i].attempt <= opts.maxAttempts
             /\ Count("operation") = trace[i].attempt
             /\ Count("onRetry") = trace[i].attempt - 1
             /\ Count("onFailure") = 0
    /\ result.kind = "resolved" =>
          /\ Idx("operationSettled") # {}
          /\ trace[Len(trace)].ans = "returned"

C3_Witness ==
    /\ Done
    /\ result = [kind |-> "resolved", val |-> "v2"]
    /\ Count("operation") = 3
    /\ Count("onRetry") = 2

ExpectedBackoff(at) ==
    CASE opts.backoff = "exponentialBackoff" ->
            IF opts.initialDelay * (2 ^ (at - 1)) <= opts.maxDelay
               THEN opts.initialDelay * (2 ^ (at - 1)) ELSE opts.maxDelay
      [] opts.backoff = "linearBackoff" ->
            IF opts.initialDelay * at <= opts.maxDelay
               THEN opts.initialDelay * at ELSE opts.maxDelay
      [] opts.backoff = "fixedBackoff" -> opts.initialDelay

\* C5: on every retried failure at attempt k the delay is the one
\* retryCondition supplied, verbatim (it may exceed maxDelay, it may be 0)
\* and backoff is not called; otherwise it is
\* backoff(initialDelay, k, maxDelay).  onRetry(error, k, delay) gets that
\* delay and sleep gets the same.
C5_DelaySelection ==
    /\ \A i \in Idx("onRetry") :
          LET k == trace[i].attempt
              c == CHOOSE j \in Idx("retryCondition") : trace[j].attempt = k
          IN  /\ trace[c].ans = "retry"
              /\ trace[i].val = trace[c].val
              /\ IF trace[c].delay # NoDelay
                    THEN /\ i = c + 1
                         /\ trace[i].delay = trace[c].delay
                         /\ \A b \in Idx("backoff") : trace[b].attempt # k
                    ELSE /\ i = c + 2
                         /\ trace[c + 1].ev = "backoff"
                         /\ trace[c + 1].delay = ExpectedBackoff(k)
                         /\ trace[i].delay = ExpectedBackoff(k)
    /\ \A i \in Idx("sleep") :
          \E j \in Idx("onRetry") :
             /\ j < i
             /\ trace[j].attempt = trace[i].attempt
             /\ trace[j].delay = trace[i].delay
    /\ \A i \in Idx("sleepSettled") : trace[i].delay = trace[i - 1].delay

C5_Witness ==
    /\ Done
    /\ \E i, j \in Idx("sleepSettled") :
          /\ trace[i].attempt = 1 /\ trace[i].delay = 0
          /\ trace[j].attempt = 2 /\ trace[j].delay = opts.maxDelay
    /\ Count("backoff") = 1
    /\ opts.initialDelay * 2 > opts.maxDelay

\* The successful completions of a hook call.
Completed == {"returned", "resolved"}

C7_RetryStepOrder ==
    /\ \A i \in Idx("operation") :
          trace[i].attempt > 1 =>
             LET k == trace[i].attempt - 1
                 c == IF trace[i - 5].ev = "backoff" THEN i - 6 ELSE i - 5
             IN  /\ i > 6
                 /\ trace[i - 1].ev = "sleepSettled" /\ trace[i - 1].attempt = k
                 /\ trace[i - 2].ev = "sleep" /\ trace[i - 2].attempt = k
                 /\ trace[i - 3].ev = "onRetrySettled"
                 /\ trace[i - 3].attempt = k
                 /\ trace[i - 3].ans \in Completed
                 /\ trace[i - 4].ev = "onRetry" /\ trace[i - 4].attempt = k
                 /\ trace[c].ev = "retryCondition" /\ trace[c].attempt = k
                 /\ trace[c - 1].ev = "operationSettled"
                 /\ trace[c - 1].attempt = k
                 /\ trace[c - 1].ans = "threw"
    /\ pc \in {"awaitOnRetry", "sleep", "sleeping"} =>
          /\ Count("operation") = attempt
          /\ trace[LastIdx("operation")].attempt = attempt
    /\ pc = "awaitOnRetry" => Count("sleep") = attempt - 1
    /\ pc = "sleeping" =>
          /\ trace[Len(trace)].ev = "sleep"
          /\ Count("sleepSettled") = attempt - 1

C7_Witness ==
    /\ pc = "awaitOperation"
    /\ attempt = 2
    /\ clock = 7000
    /\ \E i \in Idx("onRetrySettled") : trace[i].ans = "resolved"

\* C8: for maxAttempts >= 1 every call finishes, and at no point has the
\* operation been invoked more than maxAttempts times: the attempt counter
\* equals the number of invocations made or about to be made and never
\* exceeds maxAttempts while the loop runs.
C8_Terminates ==
    /\ (opts.maxAttempts >= 1) => <>Done
    /\ [](opts.maxAttempts >= 1 =>
            /\ Count("operation") <= opts.maxAttempts
            /\ ~Done => attempt <= opts.maxAttempts
            /\ Count("operation") \in {attempt - 1, attempt})

C8_Witness ==
    /\ Done
    /\ opts.maxAttempts = 3
    /\ Count("operation") = 3
    /\ Count("sleepSettled") = 2

----------------------------------------------------------------------------
(* Properties of scrapeJobPage.                                            *)

DetailIds(d) == {r.id : r \in d.detail}

\* The detail row with this id.
DetailById(d, id) == CHOOSE r \in d.detail : r.id = id

\* C9: when scrapeJobPage found a detail row for the posting with a
\* checksum other than the candidate's and its transaction has committed,
\* exactly one history record has been added, it references that row, and
\* that same row (no row added, no other row touched) now carries the
\* candidate checksum and the scraped title, location and description.
C9_ChangedWrite ==
    (job.pc = "returned" /\ log.path = "Changed") =>
        LET e == job.existingDetail
            c == createChecksum(JobData(job.page))
        IN  /\ e \in pre.detail
            /\ e.jobPostingId = job.posting
            /\ e.checksum # c
            /\ Len(db.history) = Len(pre.history) + 1
            /\ SubSeq(db.history, 1, Len(pre.history)) = pre.history
            /\ db.history[Len(db.history)].jobPostingDetailId = e.id
            /\ DetailIds(db) = DetailIds(pre)
            /\ \A r \in pre.detail : r.id # e.id => r \in db.detail
            /\ LET r == DetailById(db, e.id)
               IN  /\ r.jobPostingId = job.posting
                   /\ r.checksum = c
                   /\ r.title = job.page.jobTitle
                   /\ r.location = job.page.location
                   /\ r.text = job.page.description

C9_Witness ==
    /\ job.pc = "returned"
    /\ log.path = "Changed"
    /\ Len(db.history) = 1
    /\ Cardinality(db.detail) = 1
    /\ job.existingDetail.title = "t1"
    /\ job.page.jobTitle = "t2"

\* The statement of C10 as written: after a failed step of the Changed
\* transaction the whole persisted state is the one before the scrape.
C10_WholeStateRestored ==
    (job.pc = "threw" /\ log.path = "Changed" /\ log.failedAt \in TxSteps)
        => db = pre

\* C10: the writes of the transaction are all-or-nothing.  While the
\* transaction runs the committed rows do not change; a step either
\* leaves them alone or is the commit, which brings the history record,
\* the updated detail row and lastScrapedAt at once; and after a failed
\* step the detail rows and the history records are those before the
\* scrape.  (What scrapeJobPage wrote before the transaction stays.)
C10_AllOrNothing ==
    /\ []((job.pc = "threw" /\ log.failedAt \in TxSteps) =>
            /\ db.detail = pre.detail
            /\ db.history = pre.history
            /\ \A p \in PostingIds :
                  p # job.posting => db.posting[p] = pre.posting[p]
            /\ ~log.notFound => db.posting = pre.posting)
    /\ [][(job.pc \in TxSteps \cup {"tx"}) =>
            \/ db' = db
            \/ /\ job.pc = "txCommit"
               /\ job'.pc = "returned"
               /\ db'.posting[job.posting].lastScrapedAt = now
               /\ db'.company = db.company
               /\ IF job.existingDetail # NoRow
                     THEN /\ Len(db'.history) = Len(db.history) + 1
                          /\ DetailById(db', job.existingDetail.id).checksum
                                = job.checksum
                          /\ DetailIds(db') = DetailIds(db)
                     ELSE /\ db'.history = db.history
                          /\ Cardinality(db'.detail)
                                = Cardinality(db.detail) + 1]_vars

C10_Witness ==
    /\ job.pc = "threw"
    /\ log.failedAt = "txUpdate"
    /\ log.path = "Changed"
    /\ db.company # pre.company
    /\ db.history = <<>>

\* The running scrape found a detail row of its posting whose checksum is
\* the candidate's, and has returned.
UnchangedScrapeEnded ==
    /\ job.pc = "returned"
    /\ job.existingDetail # NoRow
    /\ job.checksum # <<>>
    /\ job.existingDetail.checksum = createChecksum(JobData(job.page))

C12_UnseenCreate ==
    /\ []((/\ job.pc = "returned"
           /\ ~\E r \in pre.detail : r.jobPostingId = job.posting) =>
            /\ log.path = "Unseen"
            /\ log.txBegun = 1
            /\ log.txCommitted = 1
            /\ pre.detail \subseteq db.detail
            /\ Cardinality(db.detail \ pre.detail) = 1
            /\ \A r \in db.detail \ pre.detail :
                  /\ r.jobPostingId = job.posting
                  /\ r.id \notin DetailIds(pre)
                  /\ r.checksum = createChecksum(JobData(job.page))
                  /\ r.title = job.page.jobTitle
                  /\ r.location = job.page.location
                  /\ r.text = job.page.description
            /\ db.history = pre.history
            /\ db.posting[job.posting].lastScrapedAt = now)
    /\ [][(/\ job.existingDetail = NoRow
           /\ job.pc # "idle"
           /\ \/ db'.detail # db.detail
              \/ db'.posting[job.posting].lastScrapedAt
                    # db.posting[job.posting].lastScrapedAt
           /\ job.pc # "getHtml") =>
            /\ job.pc = "txCommit"
            /\ Cardinality(db'.detail) = Cardinality(db.detail) + 1
            /\ db'.posting[job.posting].lastScrapedAt = now]_vars

C12_Witness ==
    /\ job.pc = "returned"
    /\ log.path = "Unseen"
    /\ job.posting = 2
    /\ Cardinality(db.detail) = 2
    /\ db.history = <<>>
    /\ db.posting[2].lastScrapedAt = now

\* The running scrape is past the step that obtains the extraction.
PastExtraction ==
    \/ job.pc \in {"tx", "returned"} \cup TxSteps
    \/ /\ job.pc = "threw"
       /\ log.failedAt \in {"parse", "ai", "aiOther"} \cup TxSteps

\* The running scrape is the second of two scrapes, one right after the
\* other, of distinct postings with the same checksum, neither of which
\* had a detail row; the first returned.
SecondOfTwins ==
    /\ log.prev.posting \in PostingIds \ {job.posting}
    /\ log.prev.path = "Unseen"
    /\ log.path = "Unseen"
    /\ log.prev.checksum = job.checksum
    /\ PastExtraction

\* Calls of getJsonDataFromJobData made by a scrape that made n API calls.
Invocations(n) == IF n > 0 THEN 1 ELSE 0

\* C13: over two such scrapes getJsonDataFromJobData is called at most
\* once, and the second scrape takes its extraction from the row the
\* first one stored.
C13_DedupReuse ==
    SecondOfTwins =>
        /\ Invocations(log.prev.aiCalls) + Invocations(log.aiCalls) <= 1
        /\ log.reused
        /\ log.failedAt # "parse"
        /\ job.jobExtractionData \in Extractions
        /\ \E r \in pre.detail :
              /\ r.jobPostingId = log.prev.posting
              /\ r.json = job.jobExtractionData

\* The stored payloads of the rows that carried this checksum before the
\* running scrape.
StoredPayloads(c) == {r.json : r \in {x \in pre.detail : x.checksum = c}}

\* C14: the detail row a returned scrape has written carries a payload,
\* the one of this scrape: a stored payload of a row with the candidate's
\* checksum when there was such a row (and then no AI call is made), the
\* answer of the AI call otherwise.
C14_PayloadObtained ==
    (job.pc = "returned" /\ log.path \in {"Unseen", "Changed"}) =>
        /\ job.jobExtractionData \in Extractions
        /\ \A r \in db.detail :
              r.jobPostingId = job.posting => r.json = job.jobExtractionData
        /\ IF StoredPayloads(job.checksum) # {}
              THEN /\ log.reused
                   /\ log.aiCalls = 0
                   /\ job.jobExtractionData \in StoredPayloads(job.checksum)
              ELSE /\ ~log.reused
                   /\ log.aiCalls > 0

\* The checksum of the four scraped fields, whatever their order.
FieldsChecksum(title, companyName, location, description) ==
    createChecksum(JsObj(<< Entry("description", JsField(description)),
                            Entry("location", JsField(location)),
                            Entry("companyName", JsField(companyName)),
                            Entry("jobTitle", JsField(title)) >>))

\* The company names pages can carry.
CompanyNames == {pg.companyName : pg \in Pages}

\* Every combination of scraped field values, with its checksum.
ChecksummedFields ==
    {[title |-> t, companyName |-> n, location |-> l, text |-> d,
      checksum |-> FieldsChecksum(t, n, l, d)] :
        t \in {pg.jobTitle : pg \in Pages}, n \in CompanyNames,
        l \in {pg.location : pg \in Pages},
        d \in {pg.description : pg \in Pages}}

\* C15: every persisted detail row carries the checksum of its own title,
\* location and text and of a company name, and whenever a commit adds or
\* changes a row, the row it leaves carries the title, location and
\* description of the page just scraped and the checksum of these and of
\* the page's company name; the payload takes no part in it.
C15_ChecksumOfScrapedFields ==
    /\ [](\A r \in db.detail :
            \E f \in ChecksummedFields :
                /\ f.title = r.title
                /\ f.location = r.location
                /\ f.text = r.text
                /\ f.checksum = r.checksum)
    /\ [][\A r \in db'.detail \ db.detail :
            /\ r.jobPostingId = job.posting
            /\ r.title = job.page.jobTitle
            /\ r.location = job.page.location
            /\ r.text = job.page.description
            /\ r.checksum = FieldsChecksum(job.page.jobTitle,
                                job.page.companyName, job.page.location,
                                job.page.description)]_vars

C15_Witness ==
    /\ job.pc = "returned"
    /\ log.path = "Changed"
    /\ \E r \in db.detail :
          /\ r.json \in Extractions
          /\ r.title = "t2"
          /\ r.checksum = FieldsChecksum("t2", Null, "l2", "d2")
    /\ \E r \in pre.detail : r.title = "t1"

\* C16: the history record a committed Changed scrape has added is the
\* row as it was before the update, column for column (checksum, title,
\* location, text, payload, company reference), with the row's id as
\* back-reference.
C16_HistorySnapshot ==
    (job.pc = "returned" /\ log.path = "Changed") =>
        LET e == job.existingDetail
        IN  /\ e \in pre.detail
            /\ Len(db.history) = Len(pre.history) + 1
            /\ db.history[Len(db.history)] =
                  HistoryRow(e.checksum, e.title, e.location, e.text, e.json,
                             e.id, e.linkedinCompanyId)

\* C17: no step removes or alters a history record, and a step that adds
\* one adds exactly one, at the end, in a scrape that found a detail row
\* of its posting with a checksum other than the candidate's.
C17_HistoryAppendOnly ==
    [][/\ Len(db'.history) >= Len(db.history)
       /\ SubSeq(db'.history, 1, Len(db.history)) = db.history
       /\ db'.history # db.history =>
            /\ Len(db'.history) = Len(db.history) + 1
            /\ log.path = "Changed"
            /\ job.existingDetail \in db.detail
            /\ job.existingDetail.jobPostingId = job.posting
            /\ job.existingDetail.checksum
                  # createChecksum(JobData(job.page))]_vars

C17_Witness ==
    /\ task.pc = "idle"
    /\ Len(db.history) = 1
    /\ Cardinality(db.detail) = 2
    /\ db.history[1].title = "t1"

\* C18: a scrape whose fetch of the page was answered by 404, and by
\* nothing else, ends by returning, not by throwing, with the posting
\* marked deleted and nothing else done.
C18_NotFoundReturns ==
    (/\ log.notFound
     /\ ~log.otherStatus
     /\ job.pc \in {"returned", "threw"}) =>
        /\ job.pc = "returned"
        /\ db.posting[job.posting].isDeleted
        /\ log.path = ""

----------------------------------------------------------------------------
(* Properties of createChecksum.                                           *)

\* Call i returned a digest.
Accepted(i) == ckOut[i] # NoSum /\ ckOut[i][1] = "sha256"

EntryKeys(ents) == {ents[i].k : i \in 1..Len(ents)}

RECURSIVE SameUpToKeyOrder(_, _)
\* Two values are the same but for the insertion order of object keys:
\* same type; same primitive; arrays equal element by element; objects
\* with the same keys and, key by key, the same values.
SameUpToKeyOrder(x, y) ==
    IF x.t # y.t THEN FALSE
    ELSE IF x.t = "array"
       THEN /\ Len(x.kids) = Len(y.kids)
            /\ \A i \in 1..Len(x.kids) :
                  SameUpToKeyOrder(x.kids[i], y.kids[i])
    ELSE IF x.t = "object"
       THEN /\ EntryKeys(x.kids) = EntryKeys(y.kids)
            /\ \A i \in 1..Len(x.kids) : \A j \in 1..Len(y.kids) :
                  x.kids[i].k = y.kids[j].k =>
                      SameUpToKeyOrder(x.kids[i].v, y.kids[j].v)
    ELSE x.p = y.p

\* C19: two accepted values that differ at most in the insertion order of
\* object keys, at the top, inside nested objects or inside objects that
\* are array elements, get the same checksum.
C19_KeyOrderInvariance ==
    (/\ Accepted(1)
     /\ Accepted(2)
     /\ SameUpToKeyOrder(ckIn[1], ckIn[2])) => ckOut[1] = ckOut[2]

C19_Witness ==
    /\ Accepted(1)
    /\ Accepted(2)
    /\ ckOut[1] = ckOut[2]
    /\ ckIn[1] = JsObj(<<Entry("a", JsObj(<<Entry("a", JsNum("1")),
                                           Entry("b", JsStr("1"))>>)),
                         Entry("b", JsNum("1"))>>)
    /\ ckIn[2] = JsObj(<<Entry("b", JsNum("1")),
                         Entry("a", JsObj(<<Entry("b", JsStr("1")),
                                           Entry("a", JsNum("1"))>>))>>)

\* C20: two accepted values have the same checksum exactly when they are
\* the same but for the insertion order of object keys.
C20_ChecksumIff ==
    (Accepted(1) /\ Accepted(2)) =>
        (ckOut[1] = ckOut[2] <=> SameUpToKeyOrder(ckIn[1], ckIn[2]))

\* The types the contract of createChecksum rejects.
RejectedTypes == {"undefined", "function", "symbol", "bigint"}

RECURSIVE OccurringTypes(_)
\* The rejected types occurring anywhere in a value: at the top, as an
\* array element or as the value of a key, at any depth.
OccurringTypes(x) ==
    IF x.t \in RejectedTypes THEN {x.t}
    ELSE IF x.t = "array"
       THEN UNION {OccurringTypes(x.kids[i]) : i \in 1..Len(x.kids)}
    ELSE IF x.t = "object"
       THEN UNION {OccurringTypes(x.kids[i].v) : i \in 1..Len(x.kids)}
    ELSE {}

\* C21: a call of createChecksum on a value in which a rejected type
\* occurs anywhere ends with a TypeError that names a rejected type
\* occurring in the value, and with no digest; and a call that returned a
\* digest was given a value free of rejected types.
C21_RejectsUnsupported ==
    \A i \in {1, 2} :
        ckOut[i] # NoSum =>
            IF OccurringTypes(ckIn[i]) # {}
               THEN /\ ckOut[i][1] = "TypeError"
                    /\ ckOut[i][2] \in OccurringTypes(ckIn[i])
               ELSE ckOut[i][1] = "sha256"

C21_Witness ==
    /\ ckIn[1] = JsObj(<<Entry("a", JsObj(<<Entry("b", JsOther("symbol"))>>))>>)
    /\ ckOut[1] = <<"TypeError", "symbol">>
    /\ ckIn[2] = JsObj(<<Entry("a", JsArr(<<JsOther("bigint")>>)),
                         Entry("b", JsNum("1"))>>)
    /\ ckOut[2] = <<"TypeError", "bigint">>

----------------------------------------------------------------------------
(* Properties of the backoff strategies.                                   *)

\* The strategy named was called, bare, and has returned.
BareCallOf(name) ==
    /\ boOut # <<>>
    /\ ~boIn.decorated
    /\ boIn.backoff.name = name

\* C22: exponentialBackoff returns the smaller of initialDelay *
\* 2^(attempt-1) and maxDelay, for attempts below 1 as well, where the
\* product is initialDelay divided by 2^(1-attempt); and the four values
\* the specification quotes.
C22_ExponentialBackoff ==
    /\ BareCallOf("exponentialBackoff") =>
          LET i == boIn.initialDelay
              a == boIn.attempt
              m == boIn.maxDelay
              d == 2 ^ (IF a >= 1 THEN a - 1 ELSE 1 - a)
          IN  IF a >= 1
                 THEN boOut[1] = IF i * d <= m THEN i * d ELSE m
                 ELSE IF i <= m * d THEN boOut[1] * d = i
                                    ELSE boOut[1] = m
    /\ exponentialBackoff(1000, 1, 10000) = 1000
    /\ exponentialBackoff(1000, 4, 10000) = 8000
    /\ exponentialBackoff(1000, 5, 10000) = 10000
    /\ exponentialBackoff(1000, 0, 10000) = 500

C22_Witness ==
    /\ BareCallOf("exponentialBackoff")
    /\ boIn.initialDelay = 1000
    /\ boIn.attempt = 0
    /\ boIn.maxDelay = 10000
    /\ boOut = <<500>>

\* C23: linearBackoff returns the smaller of initialDelay * attempt and
\* maxDelay, fixedBackoff returns initialDelay whatever the attempt and
\* maxDelay; and the two values the specification quotes.
C23_LinearAndFixed ==
    /\ BareCallOf("linearBackoff") =>
          LET product == boIn.initialDelay * boIn.attempt
          IN  boOut[1] = IF product <= boIn.maxDelay THEN product
                                                     ELSE boIn.maxDelay
    /\ BareCallOf("fixedBackoff") => boOut[1] = boIn.initialDelay
    /\ linearBackoff(1000, 6, 5000) = 5000
    /\ linearBackoff(1000, 3, 0) = 0

C23_Witness ==
    /\ BareCallOf("linearBackoff")
    /\ boIn.initialDelay = 1000
    /\ boIn.attempt = 6
    /\ boIn.maxDelay = 5000
    /\ boOut = <<5000>>

\* The statement of C24 as written: whichever of the three strategies is
\* called, bare or decorated by withRandomness, the delay returned is at
\* most maxDelay.
C24_MaxDelayCeiling ==
    (boOut # <<>> /\ boIn.backoff.name \in BackoffNames) =>
        boOut[1] <= boIn.maxDelay

\* C24: linearBackoff, exponentialBackoff and every function made by
\* withRandomness (of the three strategies or of a custom one) return at
\* most maxDelay; fixedBackoff called bare returns initialDelay, above
\* maxDelay when initialDelay is.
C24_ClampedStrategies ==
    boOut # <<>> =>
        /\ (\/ boIn.decorated
            \/ boIn.backoff.name \in {"linearBackoff", "exponentialBackoff"})
              => boOut[1] <= boIn.maxDelay
        /\ BareCallOf("fixedBackoff") => boOut[1] = boIn.initialDelay

C24_Witness ==
    /\ boIn.decorated
    /\ boIn.backoff.name = "fixedBackoff"
    /\ boIn.factor = Grain
    /\ boIn.random = Grain
    /\ boIn.initialDelay = 6000
    /\ boIn.maxDelay = 5000
    /\ boOut = <<5000>>

\* The function made by withRandomness(backoff, 0) was called and has
\* returned.
ZeroFactorCall ==
    /\ boOut # <<>>
    /\ boIn.decorated
    /\ boIn.factor = 0

\* What the base strategy returns for the arguments of the call.
BaseValue ==
    CallStrategy(boIn.backoff, boIn.initialDelay, boIn.attempt, boIn.maxDelay)

\* The statement of C25 as written: withRandomness(strategy, 0) returns
\* exactly what the strategy returns, for every strategy and input.
C25_IdentityAtZero ==
    ZeroFactorCall => boOut[1] = BaseValue

\* C25: withRandomness(strategy, 0) returns the smaller of the strategy's
\* value and maxDelay, whatever Math.random() gives: the strategy's value
\* itself whenever that is at most maxDelay.
C25_ClampedIdentityAtZero ==
    ZeroFactorCall =>
        /\ boOut[1] = IF BaseValue <= boIn.maxDelay THEN BaseValue
                                                    ELSE boIn.maxDelay
        /\ BaseValue <= boIn.maxDelay => boOut[1] = BaseValue

C25_Witness ==
    /\ ZeroFactorCall
    /\ boIn.random = Grain
    /\ boIn.backoff = Custom(1000)
    /\ boIn.maxDelay = 5000
    /\ boOut = <<1000>>

\* C26: a function made by withRandomness with a factor f in [0,1],
\* called where the base strategy returns b >= 0, returns the smaller of
\* b * r and maxDelay for some r in [1-f, 1+f]: never more than b*(1+f),
\* never more than maxDelay, never less than b*(1-f) unless it is
\* maxDelay; r is 1-f for the sample 0 and tends to 1+f as the sample
\* tends to 1.  (Factors, samples and r are counted in 1/Grain and
\* 1/Grain^2.)
C26_JitterRange ==
    (boOut # <<>> /\ boIn.decorated /\ BaseValue >= 0) =>
        LET b    == BaseValue
            f    == boIn.factor
            out  == boOut[1]
            unit == Grain * Grain
            lo   == unit - Grain * f
            hi   == unit + Grain * f
        IN  /\ \E r \in lo..hi :
                  out * unit = IF b * r <= boIn.maxDelay * unit
                                  THEN b * r ELSE boIn.maxDelay * unit
            /\ out * unit <= b * hi
            /\ out <= boIn.maxDelay
            /\ out * unit >= b * lo \/ out = boIn.maxDelay
            /\ boIn.random = 0 =>
                  out * unit = IF b * lo <= boIn.maxDelay * unit
                                  THEN b * lo ELSE boIn.maxDelay * unit
            /\ boIn.random = Grain =>
                  out * unit = IF b * hi <= boIn.maxDelay * unit
                                  THEN b * hi ELSE boIn.maxDelay * unit

C26_Witness ==
    /\ boIn.decorated
    /\ boIn.backoff = Custom(1000)
    /\ boIn.factor * 2 = Grain
    /\ boIn.random = 0
    /\ boIn.maxDelay = 5000
    /\ boOut = <<500>>

----------------------------------------------------------------------------
(* Properties of the retry policies of the scraper.                        *)

\* The delays slept so far, in order.
SleptDelays ==
    LET RECURSIVE From(_)
        From(i) == IF i > Len(trace) THEN <<>>
                   ELSE IF trace[i].ev = "sleep"
                           THEN <<trace[i].delay>> \o From(i + 1)
                           ELSE From(i + 1)
    IN  From(1)

\* The call is the one of getHtml, which passes no retryCondition; the
\* one of getJsonDataFromJobData passes its own.
IsGetHtmlCall == opts.retryCondition = "default"

IsAiCall == opts.retryCondition = "malformedOnly"

\* C27: a finished call of getHtml whose every run of the operation
\* failed (with an error other than ABORT_RETRY) ran it exactly 6 times,
\* slept 2000, 4000, 5000, 5000 and 5000 ms between the runs, each the
\* exponential backoff of 2000 ms capped at the default maxDelay 5000,
\* called onFailure once, last of all, with the last error, and rejected
\* with that error.
C27_GetHtmlRetryPolicy ==
    (IsGetHtmlCall /\ Done /\ OperationAlwaysFails) =>
        /\ Count("operation") = 6
        /\ SleptDelays = <<2000, 4000, 5000, 5000, 5000>>
        /\ \A i \in Idx("sleep") :
              LET k == trace[i].attempt
              IN  trace[i].delay = IF 2000 * 2 ^ (k - 1) <= 5000
                                      THEN 2000 * 2 ^ (k - 1) ELSE 5000
        /\ Count("onFailure") = 1
        /\ trace[Len(trace)].ev = "onFailure"
        /\ trace[Len(trace)].attempt = 6
        /\ trace[Len(trace)].val = trace[LastIdx("operationSettled")].val
        /\ result = [kind |-> "rejected",
                     val |-> trace[LastIdx("operationSettled")].val]

C27_Witness ==
    /\ IsGetHtmlCall
    /\ Done
    /\ OperationAlwaysFails
    /\ Count("operation") = 6
    /\ clock = 21000
    /\ result.kind = "rejected"
    /\ result.val \in Errors

\* C28: in a call of getJsonDataFromJobData the API is invoked at most
\* twice; it is invoked a second time only after the first invocation
\* failed with the malformed-output error; and when an invocation failed
\* with any other error, the call has ended after that one invocation
\* with this error, without computing a delay, calling onRetry or
\* sleeping.
C28_AiRetryPolicy ==
    IsAiCall =>
        /\ Count("operation") <= 2
        /\ Count("operation") = 2 =>
              \E i \in Idx("operationSettled") :
                 /\ trace[i].attempt = 1
                 /\ trace[i].ans = "threw"
                 /\ trace[i].val = MalformedOutput
        /\ \A i \in Idx("operationSettled") :
              (trace[i].ans = "threw" /\ trace[i].val # MalformedOutput) =>
                 /\ \A j \in Idx("operation") : j < i
                 /\ Count("sleep") = trace[i].attempt - 1
                 /\ Count("onRetry") = trace[i].attempt - 1
                 /\ Done => result = [kind |-> "rejected",
                                      val |-> trace[i].val]
        /\ (\E i \in Idx("operationSettled") :
                /\ trace[i].attempt = 1
                /\ trace[i].ans = "threw"
                /\ trace[i].val # MalformedOutput)
              => Count("operation") = 1

C28_Witness ==
    /\ IsAiCall
    /\ Done
    /\ Count("operation") = 2
    /\ Count("sleep") = 1
    /\ clock = 1000
    /\ result = [kind |-> "rejected", val |-> MalformedOutput]

----------------------------------------------------------------------------
(* Properties of the scheduling of scrapeJobsTask.                         *)

\* The calls of scrapeJobPage in progress, as (run, posting).
ScrapesInProgress ==
    UNION {{<<i, p>> : p \in runs[i].inflight} : i \in 1..Len(runs)}

\* The runs of scrapeJobsTask in progress.
RunsInProgress == {i \in 1..Len(runs) : runs[i].pc # "ended"}

\* C29: at most one call of scrapeJobPage is in progress at any time and
\* at most one run of scrapeJobsTask; a call of scrapeJobPage starts only
\* when none is in progress, and a fire of the timer while a run is in
\* progress starts no run.
C29_NoOverlap ==
    /\ [](Cardinality(ScrapesInProgress) <= 1)
    /\ [](Cardinality(RunsInProgress) <= 1)
    /\ [][/\ ScrapesInProgress' \ ScrapesInProgress # {}
              => ScrapesInProgress = {}
          /\ (cron'.ticks # cron.ticks /\ RunsInProgress # {})
              => runs' = runs]_vars

C29_Witness ==
    /\ cron.mode = "scheduled"
    /\ cron.ticks = 3
    /\ Len(runs) = 2
    /\ runs[1].pc = "ended"
    /\ runs[2].pc = "loop"
    /\ runs[2].inflight = {2}
    /\ runs[2].queue = <<>>

----------------------------------------------------------------------------
(* Frame of the detail and history tables.                                 *)

\* C30: the committed detail rows and history records change in one kind
\* of step only, the commit of the transaction of scrapeJobPage, which
\* makes them those of the transaction; no other step of a scrape (the
\* fetch and its not-found marking, the company upsert, the lookups, the
\* extraction) and no step of the task creates, updates or deletes one;
\* and the rows a transaction holds change only in its own statements.
C30_DetailWritesInTransaction ==
    [][/\ (db'.detail # db.detail \/ db'.history # db.history) =>
             /\ tx.open
             /\ job.pc = "txCommit"
             /\ job'.pc = "returned"
             /\ db'.detail = tx.db.detail
             /\ db'.history = tx.db.history
       /\ (/\ tx.open
           /\ tx'.open
           /\ \/ tx'.db.detail # tx.db.detail
              \/ tx'.db.history # tx.db.history) =>
             job.pc \in {"txHistory", "txUpdate", "txCreate"}
       /\ (~tx.open /\ tx'.open) =>
             tx'.db.detail = db.detail /\ tx'.db.history = db.history]_vars

C30_Witness ==
    /\ job.pc = "returned"
    /\ log.txCommitted = 1
    /\ tx = NoTx
    /\ log.path = "Changed"
    /\ db.detail # pre.detail
    /\ db.history # pre.history
    /\ db.company # pre.company

----------------------------------------------------------------------------
(* Endings of withRetry.                                                   *)

\* The last entry of the history of calls.
LastEv == trace[Len(trace)]

\* return result: the value of the invocation that succeeded.
EndsReturning ==
    /\ result.kind = "resolved"
    /\ trace # <<>>
    /\ LastEv.ev = "operationSettled"
    /\ LastEv.ans = "returned"
    /\ LastEv.val = result.val

\* throw error of line 61: ABORT_RETRY, no hook called after it.
EndsAborting ==
    /\ result = [kind |-> "rejected", val |-> ABORT_RETRY]
    /\ trace # <<>>
    /\ LastEv.ev = "operationSettled"
    /\ LastEv.ans = "threw"
    /\ LastEv.val = ABORT_RETRY

\* throw error of line 67: the error of the operation, after onFailure.
EndsFailing ==
    /\ result.kind = "rejected"
    /\ result.val \in Errors
    /\ trace # <<>>
    /\ LastEv = Ev("onFailure", attempt, result.val, NoDelay, "returned")
    /\ trace[LastIdx("operationSettled")].val = result.val

\* Entries of the history in which a hook threw or its promise rejected.
HookFailures ==
    {i \in 1..Len(trace) :
        /\ trace[i].ev \in {"retryCondition", "onRetrySettled"}
        /\ trace[i].ans \in {"threw", "rejected"}}

\* The error of a hook leaves the catch block.
EndsInHook ==
    /\ result = [kind |-> "rejected", val |-> HookError]
    /\ HookFailures = {Len(trace)}

C39_HookErrorPropagates ==
    \A i \in HookFailures :
        /\ i = Len(trace)
        /\ Done
        /\ result = [kind |-> "rejected", val |-> HookError]
        /\ Count("onFailure") = 0
        /\ Count("operation") = trace[i].attempt
        /\ Count("sleep") = trace[i].attempt - 1
        /\ Count("sleepSettled") = trace[i].attempt - 1
        /\ attempt = trace[i].attempt

C39_Witness ==
    /\ Done
    /\ attempt = 2
    /\ clock > 0
    /\ LastEv.ev = "onRetrySettled"
    /\ LastEv.ans = "rejected"
    /\ result.val = HookError

----------------------------------------------------------------------------
(* Properties of the rows of a posting over successive scrapes.            *)

\* The detail rows of posting p in database d.
RowsOf(d, p) == {r \in d.detail : r.jobPostingId = p}

\* The history records that reference a detail row of posting p.
HistoryOf(d, p) ==
    SelectSeq(d.history,
              LAMBDA h : \E r \in RowsOf(d, p) : r.id = h.jobPostingDetailId)

\* C35: in every state every posting has at most one detail row, in the
\* database and in a running transaction; a step that adds a row adds one
\* row, for a posting that had none and whose lookup found none; and a row
\* once stored keeps its id and its posting (later scrapes update it in
\* place, none removes it).
C35_OneDetailRow ==
    /\ [](\A p \in PostingIds :
            /\ Cardinality(RowsOf(db, p)) <= 1
            /\ tx.open => Cardinality(RowsOf(tx.db, p)) <= 1)
    /\ [][/\ Cardinality(db'.detail) # Cardinality(db.detail) =>
                /\ job.existingDetail = NoRow
                /\ RowsOf(db, job.posting) = {}
                /\ Cardinality(RowsOf(db', job.posting)) = 1
                /\ Cardinality(db'.detail) = Cardinality(db.detail) + 1
          /\ \A r \in db.detail : \E q \in db'.detail :
                q.id = r.id /\ q.jobPostingId = r.jobPostingId]_vars

C35_Witness ==
    /\ job.pc = "returned"
    /\ log.path = "Changed"
    /\ now = TickHours
    /\ Cardinality(RowsOf(db, job.posting)) = 1
    /\ Cardinality(RowsOf(pre, job.posting)) = 1
    /\ db.detail # pre.detail
    /\ Len(db.history) = 1

\* C36: when scrapeJobPage has returned from a scrape that reached the
\* comparison (Unseen, Changed or Unchanged), the posting's lastScrapedAt
\* is the time of the scrape and the where clause of scrapeJobsTask does
\* not select the posting.
C36_LastScrapedAtSet ==
    (job.pc = "returned" /\ log.path \in {"Unseen", "Changed", "Unchanged"}) =>
        /\ db.posting[job.posting].lastScrapedAt = now
        /\ ~IsStale(job.posting)

\* C38: a scrape of a posting that scrapes the page its latest returned
\* scrape had scraped ends at the comparison: it takes the Unchanged path
\* and returns, makes no AI call, runs no transaction, and leaves the
\* detail rows and the history as they were.
C38_RescrapeIsNoOp ==
    (/\ log.path # ""
     /\ job.page = log.last[job.posting]) =>
        /\ log.path = "Unchanged"
        /\ job.pc = "returned"
        /\ job.existingDetail.checksum = job.checksum
        /\ log.aiCalls = 0
        /\ log.txBegun = 0
        /\ ~tx.open
        /\ db.detail = pre.detail
        /\ db.history = pre.history

C38_Witness ==
    /\ job.pc = "returned"
    /\ log.path = "Unchanged"
    /\ job.page = log.last[job.posting]
    /\ job.page \in Pages
    /\ now = TickHours
    /\ db.detail # {}

\* C40: a posting marked isDeleted stays marked, no run of scrapeJobsTask
\* has it among its selected postings, and from the marking on no step
\* changes or removes the detail row it has or a history record of that
\* row.
C40_DeletedIsFrozen ==
    /\ [](\A i \in DOMAIN task.queue : ~db.posting[task.queue[i]].isDeleted)
    /\ [][\A p \in PostingIds : db.posting[p].isDeleted =>
             /\ db'.posting[p].isDeleted
             /\ RowsOf(db, p) \subseteq RowsOf(db', p)
             /\ Len(HistoryOf(db', p)) >= Len(HistoryOf(db, p))
             /\ SubSeq(HistoryOf(db', p), 1, Len(HistoryOf(db, p)))
                   = HistoryOf(db, p)]_vars

----------------------------------------------------------------------------
(* Properties of extractJobIdFromUrn.                                      *)

\* The text every URN of a job posting starts with.
JobPostingPrefix == "urn:li:jobPosting:"

\* The string is "urn:li:jobPosting:" followed by one or more characters,
\* all of them decimal digits: exactly the four parts, the last a
\* non-empty all-digit id.
WellFormedUrn(s) ==
    /\ Len(s) > Len(JobPostingPrefix)
    /\ SubSeq(s, 1, Len(JobPostingPrefix)) = JobPostingPrefix
    /\ \A i \in Len(JobPostingPrefix) + 1 .. Len(s) :
          SubSeq(s, i, i) \in DecimalDigits

\* The number the digits of s from position i on denote after the value
\* acc of the digits before them.
RECURSIVE Numeral(_, _, _)
Numeral(s, i, acc) ==
    IF i > Len(s) THEN acc
    ELSE Numeral(s, i + 1,
                 acc * 10 + (CHOOSE n \in 0..9 : ToString(n) = SubSeq(s, i, i)))

\* C33: the call returns the number its id denotes when the URN is
\* "urn:li:jobPosting:" followed by a non-empty all-digit id, and null for
\* every other string (another namespace or entity type, an id that is not
\* all digits or is empty, fewer or more than four parts, the empty
\* string).
C33_UrnParsing ==
    urnOut # NoJobId =>
        /\ WellFormedUrn(urnIn) =>
              urnOut = [type |-> "bigint",
                        val |-> Numeral(urnIn, Len(JobPostingPrefix) + 1, 0)]
        /\ ~WellFormedUrn(urnIn) => urnOut = [type |-> "null", val |-> 0]

C33_Witness ==
    /\ urnIn = "urn:li:jobPosting:007"
    /\ urnOut = [type |-> "bigint", val |-> 7]

----------------------------------------------------------------------------
(* Properties of the pagination of scrapeJobsPage.                         *)

\* C32: the call ends (it returns or throws); no page is requested at an
\* offset of 1000 or more, and none is being requested once the offset has
\* reached 1000; the offset changes only when a page with items has been
\* parsed, and then grows by the number of its items; after a page without
\* items, and once the offset has reached 1000, no further page is
\* requested.
C32_PaginationStops ==
    /\ <>(search.pc \in {"done", "threw"})
    /\ [](/\ search.asked < 1000
          /\ search.pc = "getHtml" => search.start < 1000 /\ search.asked = search.start
          /\ search.start >= 0)
    /\ [][/\ search'.start # search.start =>
                /\ search.pc = "getHtml"
                /\ search'.items > 0
                /\ search'.start = search.start + search'.items
                /\ search'.start > search.start
          /\ (search.pc = "getHtml" /\ search'.pc = "while") =>
                search'.start = search.start + search'.items /\ search'.items > 0
          /\ (search.pc = "getHtml" /\ search'.pc # "threw" /\ search'.items = 0) =>
                search'.pc = "save"
          /\ (search.pc = "while" /\ search.start >= 1000) =>
                search'.pc = "save" /\ search'.asked = search.asked
          /\ search.pc \in {"save", "done", "threw"} =>
                /\ search'.asked = search.asked
                /\ search'.pc \in {"done", "threw"}]_vars

C32_Witness ==
    /\ search.pc = "done"
    /\ search.start = 1024
    /\ search.asked = 999
    /\ search.items = 25

----------------------------------------------------------------------------
(* Properties of the selection of scrapeJobsTask.                          *)

\* Posting p is not marked deleted and was never scraped or was last
\* scraped more than 24 hours ago.
Due(p) ==
    /\ ~board[p].isDeleted
    /\ \/ board[p].lastScrapedAt = NullTime
       \/ sweep.now - board[p].lastScrapedAt > 24

\* C31: a run selects at most 10 postings, each of them due when the query
\* is made, and as many as are due up to 10; with no posting due the run
\* ends without a call of scrapeJobPage; the postings a run passes to
\* scrapeJobPage are postings it selected, in the order of the selection,
\* each once, and each is still due when it is passed.
C31_BatchSelection ==
    /\ [](/\ Len(sweep.picked) <= 10
          /\ Len(sweep.passed) <= Len(sweep.picked)
          /\ sweep.passed = SubSeq(sweep.picked, 1, Len(sweep.passed))
          /\ \A i, j \in DOMAIN sweep.picked :
                i # j => sweep.picked[i] # sweep.picked[j]
          /\ sweep.pc = "scrape" =>
                /\ sweep.passed # <<>>
                /\ sweep.posting = sweep.passed[Len(sweep.passed)]
                /\ Due(sweep.posting))
    /\ [][(sweep.pc = "idle" /\ sweep'.now = sweep.now) =>
             LET due == {p \in DOMAIN board : Due(p)}
             IN  /\ \A i \in DOMAIN sweep'.picked : sweep'.picked[i] \in due
                 /\ Len(sweep'.picked) =
                       IF Cardinality(due) > 10 THEN 10 ELSE Cardinality(due)
                 /\ sweep'.passed = <<>>
                 /\ due = {} => sweep'.pc = "idle"]_vars

C31_Witness ==
    /\ sweep.pc = "loop"
    /\ sweep.queue = <<>>
    /\ Len(sweep.passed) = 10
    /\ \E p \in DOMAIN board :
          /\ Due(p)
          /\ \A i \in DOMAIN sweep.picked : sweep.picked[i] # p

\* C37: whenever a posting is due, a later run passes it to scrapeJobPage.
C37_NoStarvation ==
    \A p \in FewIds :
        [](Due(p) => <>(sweep.pc = "scrape" /\ sweep.posting = p))

====
